---------------------------- MODULE Spec2Model ----------------------------
(***************************************************************************)
(* A model of the DBGP client of vdebug: the Connection transport          *)
(* (plugin/python/dbgp/connection.py, repeated in plugin/python/dbgp.py)   *)
(* and the Api transaction engine (plugin/python/dbgp.py).                 *)
(*                                                                         *)
(* Bytes are one-character strings; NUL stands for '\0'.  A Python str is  *)
(* a sequence of bytes.  Python's None is the string "None" where a name   *)
(* is expected and the socket id 0 where a socket is expected.             *)
(***************************************************************************)
EXTENDS Integers, Sequences, FiniteSets, TLC

(***************************************************************************)
(* Bounds of the model.                                                    *)
(***************************************************************************)
\* Sockets one Connection object accepts over its life.
MaxOpens == 1
\* Messages the peer may have written that recv_msg has not consumed yet.
MaxInflight == 2
\* Api instances constructed one after another.
MaxApis == 2
\* send_cmd calls on one Api instance.
MaxCmds == 3
\* listen() calls, and peers that connect to the listener
MaxListens == 4
MaxPeers == 2
\* execution commands issued through the DebuggerInterface
MaxExec == 3
\* open() calls on one Connection
MaxOpenCalls == 3
\* breakpoints added to the store
MaxBps == 3
\* sessions the breakpoints are replayed onto
MaxSessions == 2
\* log() calls on one Logger
MaxLogs == 3
\* close() calls on the DebuggerInterface
MaxCloses == 4
\* map() / reload() / unmap() calls on one Keymapper
MaxKeyOps == 4

(***************************************************************************)
(* Bytes, str(int) and int(str).                                           *)
(***************************************************************************)
NUL == "NUL"
None == 0

\* c.isdigit() for a one-byte str
Digits == {"0", "1", "2", "3", "4", "5", "6", "7", "8", "9"}
isdigit(c) == c \in Digits

DigitVal(c) ==
    CASE c = "0" -> 0 [] c = "1" -> 1 [] c = "2" -> 2 [] c = "3" -> 3
      [] c = "4" -> 4 [] c = "5" -> 5 [] c = "6" -> 6 [] c = "7" -> 7
      [] c = "8" -> 8 [] c = "9" -> 9

DigitChar(d) ==
    CASE d = 0 -> "0" [] d = 1 -> "1" [] d = 2 -> "2" [] d = 3 -> "3"
      [] d = 4 -> "4" [] d = 5 -> "5" [] d = 6 -> "6" [] d = 7 -> "7"
      [] d = 8 -> "8" [] d = 9 -> "9"

\* int(s) for a non-empty str of digits (int('') raises ValueError: see
\* recv_length).
RECURSIVE int(_)
int(s) ==
    IF Len(s) = 0 THEN 0
    ELSE 10 * int(SubSeq(s, 1, Len(s) - 1)) + DigitVal(s[Len(s)])

\* str(n) for n >= 0
RECURSIVE str(_)
str(n) ==
    IF n < 10 THEN <<DigitChar(n)>>
    ELSE str(n \div 10) \o <<DigitChar(n % 10)>>

Min(a, b) == IF a < b THEN a ELSE b

(***************************************************************************)
(* The two wire forms.                                                     *)
(***************************************************************************)
\* What Connection.send_msg hands to sock.send: cmd + '\0'.
\* Faulty variants, to test that the properties below tell them apart: a
\* send_msg that frames like the engine, and one that forgets the NUL.
send_msg_bytes_framed(cmd) == str(Len(cmd)) \o <<NUL>> \o cmd \o <<NUL>>
send_msg_bytes_unterminated(cmd) == cmd
send_msg_bytes(cmd) == cmd \o <<NUL>>

\* What the engine writes and recv_msg reads: the decimal length, a NUL, the
\* payload, a NUL.  pad is a number of leading zeros of the length.
Zeros(k) == [i \in 1..k |-> "0"]
Frame(p, pad) == Zeros(pad) \o str(Len(p)) \o <<NUL>> \o p \o <<NUL>>

(***************************************************************************)
(* Inputs.                                                                 *)
(***************************************************************************)
\* A payload of twelve bytes: its length prefix has two digits.
Long == <<"a", "1", NUL, "a", "a", "a", "2", NUL, "a", "a", "a", "a">>

\* Payloads the engine frames: empty, plain, with digits and NULs inside.
EnginePayloads == { <<>>, <<"a">>, <<"1", NUL, "a">>, <<NUL, "2", NUL>>, Long }

\* Payloads a Connection on the other end passes to send_msg.
PairedPayloads ==
    { <<>>, <<"a">>, <<"1", NUL, "a">>, <<"0", "1">>, <<"a", "1", NUL, "b">> }

\* Payloads of the lifecycle specification.
LifePayloads == { <<"a">> }

\* Commands passed to Connection.send_msg.
SendCmds == { <<>>, <<"a">>, <<"1", NUL, "a">> }

(***************************************************************************)
(* State.                                                                  *)
(***************************************************************************)
VARIABLES
    \* ---- Connection (connection.py 12-26) ----
    sock,        \* Connection.sock: None, or the id of the accepted socket
    isconned,    \* Connection.isconned: 0 or 1
    \* ---- the operating system's view of the sockets ----
    serv,        \* the listening socket made by the last open():
                 \* "none" (no open() yet), "closed", or "open" (not closed)
    closeCalls,  \* closeCalls[i]: how often close() was called on socket i
    \* ---- the peer and the bytes in flight ----
    inbuf,       \* bytes the peer has written that recv() has not returned
    peerClosed,  \* the peer has shut its end: recv() on an empty inbuf is ''
    inflight,    \* the messages the peer wrote, oldest first, that no
                 \* finished recv_msg has been matched with
    sync,        \* every finished recv_msg so far began at the first byte
                 \* of a message and that message was a well-formed frame
    \* ---- the locals of a recv_msg call in progress ----
    pc,          \* "idle", "length", "body" or "null"
    length,      \* __recv_length: the digits read so far
    to_recv,     \* __recv_body: bytes still to receive
    body,        \* __recv_body: bytes received so far
    short,       \* some recv() of this __recv_body returned fewer bytes
                 \* than it was asked for
    \* ---- what the last Connection method did ----
    ret,         \* [op, exc, val, phase]: the method called on the
                 \* Connection directly, the exception it raised ("none" if
                 \* it returned), the value returned, and for an EOFError
                 \* the read phase that saw it
    consumed,    \* [aligned, msg, short]: the message the last finished
                 \* recv_msg is matched with, whether sync held when it
                 \* began, and whether it saw a short read
    sent,        \* [cmd, bytes]: the argument of the last send_msg called
                 \* on the Connection directly and the buffer it handed to
                 \* sock.send (what an Api writes is in wire)
    \* ---- Api (dbgp.py 85-156) ----
    apiClass,    \* the attributes of the class Api: conn, transID
    api,         \* the attributes of the current Api instance (its __dict__)
    apiLive,     \* an Api instance exists: its constructor has returned
    nApis,       \* Api constructions so far
    initMsg,     \* the init message the current instance parsed
    wire,        \* what the current instance wrote, oldest first: the
                 \* command and arguments asked for (stripped), the text
                 \* passed to send_msg and the bytes handed to the socket
    prevWrote,   \* an earlier Api instance wrote a command
    apiRet,      \* [op, exc, obj]: what the last Api call did
    calls,       \* the Connection methods the current Api instance has
                 \* called since its constructor began, oldest first
    handshake,   \* [exp_idekey, msg]: the argument of the last Api(...)
                 \* and the message its recv_msg() returned, if any
    \* ---- Response (dbgp.py 7-83) ----
    out,         \* the last Api command method evaluated on its own: the
                 \* text sent, the response class, the reply, the exception
                 \* of the constructor, is_supported() and str(response)
    resp,        \* the last res_cls(msg, cmd, args) evaluated on its own:
                 \* the class, the arguments and the exception raised
    \* ---- the session and ExceptionHandler (util.py 24-108) ----
    session,     \* the session handler's state: "idle" or "active"
    pending,     \* the exception on its way to ExceptionHandler.handle,
                 \* "none" if there is none
    handled,     \* [e, ui, stops, stopped, raised]: the last handle(e):
                 \* the ui() calls it made in order, how often it called
                 \* stop(), whether a stop() ran to its end, and the
                 \* exception that left it ("none" if it returned)
    \* ---- Listener (listener.py) and DebuggerInterface.listen ----
    thread,      \* the server's accept loop is alive
    pendingSock, \* the socket the server holds for pick-up, or None
    nAccepted,   \* peers the server has accepted so far
    handed,      \* the sockets create_connection has handed out, in order
    sessSock,    \* the socket the session started by listen() owns, or None
    nStarts,     \* accept loops started so far
    nReloads,    \* Environment.reload() calls made by listen()
    nListens,    \* listen() calls so far
    printed,     \* what the last listen() printed
    \* ---- DebuggerInterface's execution commands ----
    nExec,       \* run / run_to_cursor / step_* calls so far
    lastExec,    \* the last of them, "none" before the first
    nDispatched, \* events a connected session has carried out so far
    nEnds,       \* detach() / stop() calls on an active session so far
    \* ---- Connection.__init__ and the sockets open() listens on ----
    ctor,        \* [host, port, timeout]: the arguments of Connection(...)
    attrs,       \* [host, port, timeout]: self.host, self.port, self.timeout
    servs,       \* the listening sockets the open() calls of this Connection
                 \* made, oldest first: the address bound, the timeout set
                 \* and how accept() ended
    nOpenCalls,  \* open() calls on this Connection so far
    \* ---- the breakpoint store and its session ----
    store,       \* the local records by local id: [enabled, remote]
    nextId,      \* the local id the next add() assigns
    removed,     \* the local ids of the records removed so far
    sessNo,      \* sessions that have become active so far
    nRemote,     \* remote ids the engine of this session has assigned
    bpOp,        \* [op, id, sent]: the last operation on the store, the
                 \* local id it was about and the commands it issued
    \* ---- Logger ----
    logLevel,    \* Logger.level of the current Logger
    logged,      \* the calls of _actual_log made by the last log()
    logCall,     \* [text, level, n]: the last log() and how many there were
    \* ---- WindowLogger and its window ----
    winLevel,    \* the level of the current WindowLogger
    winOpen,     \* window.is_open
    winCall,     \* [op, text, level, wasOpen, created, wrote, ret, n]: the
                 \* last log() or shutdown(): whether the window was open
                 \* before, the create() and write() calls it made on the
                 \* window and what it returned
    \* ---- FileLogger and its file ----
    fileLevel,   \* the level of the current FileLogger
    fileHandle,  \* FileLogger.f: "None", "open", or "closed" (the handle
                 \* after its close())
    fileOpens,   \* open(filename, 'w') calls this FileLogger has made
    fileCall,    \* [op, text, level, had, opened, wrote, flushed, closed,
                 \* n]: the last log() or shutdown(): f before it, the
                 \* open, flush and close calls it made and what it wrote
    \* ---- Keymapper (util.py 114-187) and Vim's key mappings ----
    vimMaps,     \* Vim's mappings: for each {lhs} what it is mapped to:
                 \* "none", "user" (a mapping of the user) or "debugger"
    userMaps,    \* vimMaps as it was before the first map()
    g_keymap,    \* g:vdebug_keymap
    g_leader,    \* g:vdebug_leader_key
    keymapper,   \* [is_mapped, keymaps, leader, existing]: the attributes
                 \* of the Keymapper
    keyCall,     \* [op, wasMapped, ran, n]: the last map(), reload() or
                 \* unmap(), is_mapped before it and the mappings unmap()
                 \* executed again, in order
    \* ---- DebuggerInterface.close and the session's UI ----
    uiOpen,      \* Session.is_open(): the UI of the session is open
    closes       \* what each close() so far closed, oldest first:
                 \* "connection", "session" or "listener"

connVars == <<sock, isconned, serv, closeCalls, inbuf, peerClosed, inflight,
              sync, pc, length, to_recv, body, short, ret, consumed, sent>>
apiVars == <<apiClass, api, apiLive, nApis, initMsg, wire, prevWrote, apiRet,
             calls, handshake, resp, out>>
sessVars == <<session, pending, handled>>
exeVars == <<nExec, lastExec, nDispatched, nEnds>>
openVars == <<ctor, attrs, servs, nOpenCalls>>
bpVars == <<store, nextId, removed, sessNo, nRemote, bpOp>>
logVars == <<logLevel, logged, logCall>>
winVars == <<winLevel, winOpen, winCall>>
fileVars == <<fileLevel, fileHandle, fileOpens, fileCall>>
keyVars == <<vimMaps, userMaps, g_keymap, g_leader, keymapper, keyCall>>
offVars == <<winVars, fileVars, keyVars>>
restVars == <<bpVars, logVars, offVars>>
sideVars == <<restVars, uiOpen, closes>>
lisVars == <<thread, pendingSock, nAccepted, handed, sessSock, nStarts,
             nReloads, nListens, printed, exeVars, openVars, sideVars>>
ctlVars == <<sessVars, lisVars>>
vars == <<connVars, apiVars, ctlVars>>

NoMsg == [kind |-> "none", payload |-> <<>>]
NoSend == [cmd |-> <<>>, bytes |-> <<>>]
Ret(op, exc, val, phase) == [op |-> op, exc |-> exc, val |-> val, phase |-> phase]

\* The bytes of the messages in flight, as the peer wrote them.
RECURSIVE Flatten(_)
Flatten(q) == IF q = <<>> THEN <<>> ELSE Head(q).bytes \o Flatten(Tail(q))

ConnInit ==
    /\ sock = None
    /\ isconned = 0
    /\ serv = "none"
    /\ closeCalls = <<>>
    /\ inbuf = <<>>
    /\ peerClosed = FALSE
    /\ inflight = <<>>
    /\ sync = TRUE
    /\ pc = "idle"
    /\ length = <<>>
    /\ to_recv = 0
    /\ body = <<>>
    /\ short = FALSE
    /\ ret = Ret("none", "none", <<>>, "none")
    /\ consumed = [aligned |-> FALSE, msg |-> NoMsg, short |-> FALSE]
    /\ sent = NoSend

\* An attribute that is None, and the attributes no instance has yet.
NoneAttr == "None"
NoAttrs == [a \in {} |-> NoneAttr]
NoInitMsg == [wellformed |-> FALSE, language |-> NoneAttr, idekey |-> NoneAttr,
              api_version |-> NoneAttr, fileuri |-> NoneAttr]
ApiRet(op, exc, obj) == [op |-> op, exc |-> exc, obj |-> obj]
NoResp == [cls |-> "none"]

\* class Api: conn = None; transID = 0
ApiClassInit == apiClass = [conn |-> NoneAttr, transID |-> 0]

ApiVarsInit ==
    /\ ApiClassInit
    /\ api = NoAttrs
    /\ apiLive = FALSE
    /\ nApis = 0
    /\ initMsg = NoInitMsg
    /\ wire = <<>>
    /\ prevWrote = FALSE
    /\ apiRet = ApiRet("none", "none", "none")
    /\ calls = <<>>
    /\ handshake = [exp_idekey |-> NoneAttr, msg |-> NoInitMsg]
    /\ resp = NoResp
    /\ out = [method |-> "none"]

Handled(e, ui, stops, stopped, raised) ==
    [e |-> e, ui |-> ui, stops |-> stops, stopped |-> stopped,
     raised |-> raised]

\* ExceptionHandler(session_handler) over a session that has not started.
SessInit ==
    /\ session = "idle"
    /\ pending = "none"
    /\ handled = Handled("none", <<>>, 0, FALSE, "none")

\* Listener(): a server that has not been started.
LisInit ==
    /\ thread = FALSE
    /\ pendingSock = None
    /\ nAccepted = 0
    /\ handed = <<>>
    /\ sessSock = None
    /\ nStarts = 0
    /\ nReloads = 0
    /\ nListens = 0
    /\ printed = "none"
    /\ nExec = 0
    /\ lastExec = "none"
    /\ nDispatched = 0
    /\ nEnds = 0
    /\ uiOpen = FALSE
    /\ closes = <<>>

\* The defaults of Connection.__init__ (connection.py 15).
DefaultHost == ""
DefaultPort == 9000
DefaultTimeout == 30

CtorArgs(host, port, timeout) ==
    [host |-> host, port |-> port, timeout |-> timeout]

\* Connection.__init__(host, port, timeout): the attributes it sets.
Connection_init(a) ==
    [host |-> a.host, port |-> DefaultPort, timeout |-> a.timeout]

\* Connection(): constructed with the defaults, never opened.
OpenInit ==
    /\ ctor = CtorArgs(DefaultHost, DefaultPort, DefaultTimeout)
    /\ attrs = Connection_init(CtorArgs(DefaultHost, DefaultPort,
                                        DefaultTimeout))
    /\ servs = <<>>
    /\ nOpenCalls = 0

\* A breakpoint record: whether it is enabled and the id the engine of the
\* current session gave it; NoRemote while it has none.
NoRemote == [sess |-> 0, n |-> 0]
Record(enabled, remote) == [enabled |-> enabled, remote |-> remote]
NoRecords == [i \in {} |-> Record(TRUE, NoRemote)]
BpOp(op, id, cmds) == [op |-> op, id |-> id, sent |-> cmds]

\* Store(): no records, the first local id still to come.
BpInit ==
    /\ store = NoRecords
    /\ nextId = 1
    /\ removed = {}
    /\ sessNo = 0
    /\ nRemote = 0
    /\ bpOp = BpOp("none", 0, <<>>)

\* The levels the logger tests use.
DefaultLevel == 1

\* Logger(level) as the tests construct it.
LogInit ==
    /\ logLevel = DefaultLevel
    /\ logged = <<>>
    /\ logCall = [text |-> "none", level |-> 0, n |-> 0]

\* The level the window and file logger tests use.
TestLevel == 2

WinCall(op, text, level, wasOpen, done, n) ==
    [op |-> op, text |-> text, level |-> level, wasOpen |-> wasOpen,
     created |-> done.created, wrote |-> done.wrote, ret |-> "None", n |-> n]

\* WindowLogger(level, window) as the tests construct it, on a window that
\* was not created yet.
WinInit ==
    /\ winLevel = TestLevel
    /\ winOpen = FALSE
    /\ winCall = WinCall("none", "none", 0, FALSE,
                         [created |-> 0, wrote |-> <<>>], 0)

FileCall(op, text, level, had, done, n) ==
    [op |-> op, text |-> text, level |-> level, had |-> had,
     opened |-> done.opened,
     wrote |-> done.wrote, flushed |-> done.flushed, closed |-> done.closed,
     n |-> n]

\* A call that left the file alone.
FileIdle(f) ==
    [f |-> f, opened |-> 0, wrote |-> <<>>, flushed |-> 0, closed |-> 0]

\* FileLogger(level, filename) as the tests construct it: no file yet.
FileInit ==
    /\ fileLevel = TestLevel
    /\ fileHandle = "None"
    /\ fileOpens = 0
    /\ fileCall = FileCall("none", "none", 0, "None", FileIdle("None"), 0)

\* Values of g:vdebug_keymap: a key for each command; and of
\* g:vdebug_leader_key.
Keymaps ==
    { [run |-> "<F5>", step_over |-> "<F2>"],
      [run |-> "<F5>", step_over |-> "<F3>"] }
DefaultKeymap == [run |-> "<F5>", step_over |-> "<F2>"]
Leaders == {"", ","}

\* The {lhs} of a mapping: the leader and the key it is made of; those of
\* the keys a command that is not excluded can have.
Lhs(leader, key) == <<leader, key>>
AllLhs == { Lhs(l, k) : l \in Leaders, k \in {"<F2>", "<F3>"} }

\* A line of mkexrc and an entry of Keymapper.existing: a map command.
MapLine(lhs, rhs) == [lhs |-> lhs, rhs |-> rhs]

\* Keymapper.__init__ (util.py 120-123)
Keymapper_init(keymap, leader) ==
    [is_mapped |-> FALSE, keymaps |-> keymap, leader |-> leader,
     existing |-> <<>>]

KeyCall(op, wasMapped, ran, n) ==
    [op |-> op, wasMapped |-> wasMapped, ran |-> ran, n |-> n]

\* Keymapper() in a Vim without mappings on these keys.
KeyInit ==
    /\ vimMaps = [lhs \in AllLhs |-> "none"]
    /\ userMaps = [lhs \in AllLhs |-> "none"]
    /\ g_keymap = DefaultKeymap
    /\ g_leader = ""
    /\ keymapper = Keymapper_init(DefaultKeymap, "")
    /\ keyCall = KeyCall("none", FALSE, <<>>, 0)

Init ==
    ConnInit /\ ApiVarsInit /\ SessInit /\ LisInit /\ OpenInit /\ BpInit
        /\ LogInit /\ WinInit /\ FileInit /\ KeyInit

\* The stream of a socket that is gone.
StreamGone ==
    /\ inbuf' = <<>>
    /\ peerClosed' = FALSE
    /\ inflight' = <<>>
    /\ sync' = TRUE

NoCall ==
    /\ pc' = "idle"
    /\ length' = <<>>
    /\ to_recv' = 0
    /\ body' = <<>>
    /\ short' = FALSE

(***************************************************************************)
(* Connection.close (connection.py 59-64).                                 *)
(***************************************************************************)
\* The Connection object and the sockets it made, as one value c, so that
\* the methods compose: c.sock, c.isconned, c.serv, c.closeCalls.
Conn ==
    [sock |-> sock, isconned |-> isconned, serv |-> serv,
     closeCalls |-> closeCalls]

SetConn(c) ==
    /\ sock' = c.sock
    /\ isconned' = c.isconned
    /\ serv' = c.serv
    /\ closeCalls' = c.closeCalls

\* self.sock.close(), when self.sock != None
sock_close(c) ==
    IF c.sock # None THEN [c.closeCalls EXCEPT ![c.sock] = @ + 1]
    ELSE c.closeCalls

\* Faulty variant: close() that forgets self.sock = None.
close_keeps_sock(c) ==
    [c EXCEPT !.closeCalls = sock_close(c), !.isconned = 0]

close(c) ==
    [c EXCEPT !.closeCalls = sock_close(c), !.sock = None, !.isconned = 0]

\* A call of close() by the owner of the Connection, or by __del__.
Close ==
    /\ pc = "idle"
    /\ SetConn(close(Conn))
    /\ StreamGone
    /\ ret' = Ret("close", "none", <<>>, "none")
    /\ UNCHANGED <<pc, length, to_recv, body, short, consumed, sent>>
    /\ UNCHANGED <<apiVars, ctlVars>>

(***************************************************************************)
(* Connection.open (connection.py 36-57).  Its one caller, Api.__init__    *)
(* (dbgp.py 110-111), calls it when isconnected() is 0.  accept() blocks:  *)
(* the three outcomes are what the environment can do meanwhile.           *)
(***************************************************************************)
CanOpen == pc = "idle" /\ isconned = 0
MayOpen == CanOpen /\ Len(closeCalls) < MaxOpens

\* accept() raises socket.timeout: serv.close(), raise TimeoutError.
\* Faulty variant: the timeout handler forgets serv.close().
open_timeout_leaks(c) == [c EXCEPT !.serv = "open"]

open_timeout(c) == [c EXCEPT !.serv = "closed"]

OpenTimeout ==
    /\ MayOpen
    /\ SetConn(open_timeout(Conn))
    /\ ret' = Ret("open", "TimeoutError", <<>>, "none")
    /\ UNCHANGED <<inbuf, peerClosed, inflight, sync, pc, length,
                   to_recv, body, short, consumed, sent>>
    /\ UNCHANGED <<apiVars, ctlVars>>

\* A peer arrives: (self.sock, address) = serv.accept(); isconned = 1;
\* serv.close().
open_accept(c) ==
    [c EXCEPT !.sock = Len(c.closeCalls) + 1,
              !.closeCalls = Append(c.closeCalls, 0),
              !.isconned = 1,
              !.serv = "closed"]

OpenAccept ==
    /\ MayOpen
    /\ SetConn(open_accept(Conn))
    /\ StreamGone
    /\ ret' = Ret("open", "none", <<>>, "none")
    /\ UNCHANGED <<pc, length, to_recv, body, short, consumed, sent>>
    /\ UNCHANGED <<apiVars, ctlVars>>

\* bind(), listen() or accept() raises something other than socket.timeout
\* (socket.error, KeyboardInterrupt): no handler, serv is not closed.
open_error(c) == [c EXCEPT !.serv = "open"]

OpenError ==
    /\ MayOpen
    /\ SetConn(open_error(Conn))
    /\ ret' = Ret("open", "error", <<>>, "none")
    /\ UNCHANGED <<inbuf, peerClosed, inflight,
                   sync, pc, length, to_recv, body, short, consumed, sent>>
    /\ UNCHANGED <<apiVars, ctlVars>>

(***************************************************************************)
(* Connection.send_msg (connection.py 114-119).                            *)
(***************************************************************************)
SendMsg ==
    /\ pc = "idle"
    /\ \E cmd \in SendCmds :
         IF sock = None
         THEN \* None has no attribute send
              /\ ret' = Ret("send_msg", "AttributeError", <<>>, "none")
              /\ UNCHANGED sent
         ELSE /\ sent' = [cmd |-> cmd, bytes |-> send_msg_bytes(cmd)]
              /\ ret' = Ret("send_msg", "none", <<>>, "none")
    /\ UNCHANGED <<sock, isconned, serv, closeCalls, inbuf, peerClosed,
                   inflight, sync, pc, length, to_recv, body, short, consumed>>
    /\ UNCHANGED <<apiVars, ctlVars>>

(***************************************************************************)
(* The peer.  It writes whole messages, or a message cut short by the end  *)
(* of its process; recv() then returns what has arrived, in any split.     *)
(***************************************************************************)
Msg(kind, p, bytes) == [kind |-> kind, payload |-> p, bytes |-> bytes]

\* Well-formed frames, one of them with a zero-padded length.
EngineMsgs(P) ==
    { Msg("frame", p, Frame(p, 0)) : p \in P }
        \cup { Msg("frame", <<"a", "a">>, Frame(<<"a", "a">>, 1)) }

\* What a Connection on the other end writes with send_msg.
PairedMsgs == { Msg("send_msg", p, send_msg_bytes(p)) : p \in PairedPayloads }

\* Frames cut short: every proper non-empty prefix.
TruncPayloads == { <<"a">>, <<"1", NUL, "a">> }
TruncMsgs ==
    UNION { { Msg("partial", p, SubSeq(Frame(p, 0), 1, n)) :
                n \in 1..(Len(Frame(p, 0)) - 1) } : p \in TruncPayloads }

CanWrite == sock # None /\ ~peerClosed /\ Len(inflight) < MaxInflight

PeerWrite(m) ==
    /\ inbuf' = inbuf \o m.bytes
    /\ inflight' = Append(inflight, m)
    /\ UNCHANGED <<sock, isconned, serv, closeCalls, sync, pc, length,
                   to_recv, body, short, ret, consumed, sent>>
    /\ UNCHANGED <<apiVars, ctlVars>>

EngineSend(P) ==
    /\ CanWrite
    /\ \E m \in EngineMsgs(P) : PeerWrite(m)
    /\ UNCHANGED peerClosed

PairedSend ==
    /\ CanWrite
    /\ \E m \in PairedMsgs : PeerWrite(m)
    /\ UNCHANGED peerClosed

EngineSendTruncated ==
    /\ CanWrite
    /\ \E m \in TruncMsgs : PeerWrite(m)
    /\ peerClosed' = TRUE

PeerClose ==
    /\ sock # None
    /\ ~peerClosed
    /\ peerClosed' = TRUE
    /\ UNCHANGED <<sock, isconned, serv, closeCalls, inbuf, inflight, sync,
                   pc, length, to_recv, body, short, ret, consumed, sent>>
    /\ UNCHANGED <<apiVars, ctlVars>>

(***************************************************************************)
(* Connection.recv_msg (connection.py 66-112), one step per sock.recv().   *)
(***************************************************************************)
\* sock.recv(n) has something to return: bytes, or '' at the end of stream.
CanRecv == inbuf # <<>> \/ peerClosed

\* c == '': self.close(); raise EOFError
\* Faulty variant: EOFError raised without self.close().
RaiseEOF_without_close(phase) ==
    /\ UNCHANGED <<sock, isconned, closeCalls, serv>>
    /\ consumed' = [aligned |-> sync,
                    msg |-> IF inflight = <<>> THEN NoMsg ELSE Head(inflight),
                    short |-> short]
    /\ NoCall
    /\ ret' = Ret("recv_msg", "EOFError", <<>>, phase)
    /\ UNCHANGED <<inbuf, peerClosed, inflight, sync, sent>>

RaiseEOF(phase) ==
    /\ SetConn(close(Conn))
    /\ consumed' = [aligned |-> sync,
                    msg |-> IF inflight = <<>> THEN NoMsg ELSE Head(inflight),
                    short |-> short]
    /\ StreamGone
    /\ NoCall
    /\ ret' = Ret("recv_msg", "EOFError", <<>>, phase)
    /\ UNCHANGED sent

\* recv_msg ends without an EOFError: it returns val, or raises exc.
Finish(exc, val) ==
    /\ ret' = Ret("recv_msg", exc, val, "none")
    /\ NoCall
    /\ IF sync /\ inflight # <<>>
       THEN /\ consumed' = [aligned |-> TRUE, msg |-> Head(inflight),
                            short |-> short]
            /\ inflight' = Tail(inflight)
            /\ sync' = (Head(inflight).kind = "frame")
       ELSE /\ consumed' = [aligned |-> FALSE, msg |-> NoMsg, short |-> short]
            /\ sync' = FALSE
            /\ UNCHANGED inflight
    /\ UNCHANGED <<sock, isconned, serv, closeCalls, peerClosed, sent>>

RecvMsgCall ==
    /\ pc = "idle"
    /\ IF sock = None
       THEN \* None has no attribute recv
            /\ ret' = Ret("recv_msg", "AttributeError", <<>>, "none")
            /\ UNCHANGED <<pc, length>>
       ELSE /\ pc' = "length"
            /\ length' = <<>>
            /\ UNCHANGED ret
    /\ UNCHANGED <<sock, isconned, serv, closeCalls, inbuf, peerClosed,
                   inflight, sync, to_recv, body, short, consumed, sent>>
    /\ UNCHANGED <<apiVars, ctlVars>>

\* __recv_length: c = self.sock.recv(1)
recv_length ==
    /\ pc = "length"
    /\ CanRecv
    /\ IF inbuf = <<>>
       THEN RaiseEOF("length")
       ELSE LET c == Head(inbuf) IN
            IF c = NUL
            THEN IF length = <<>>
                 THEN \* int('') raises ValueError; nothing is closed
                      /\ inbuf' = Tail(inbuf)
                      /\ Finish("ValueError", <<>>)
                 ELSE /\ inbuf' = Tail(inbuf)
                      /\ pc' = "body"
                      /\ to_recv' = int(length)
                      /\ body' = <<>>
                      /\ short' = FALSE
                      /\ length' = <<>>
                      /\ UNCHANGED <<sock, isconned, serv, closeCalls,
                                     peerClosed, inflight, sync, ret,
                                     consumed, sent>>
            ELSE /\ inbuf' = Tail(inbuf)
                 /\ length' = IF isdigit(c) THEN Append(length, c) ELSE length
                 /\ UNCHANGED <<sock, isconned, serv, closeCalls, peerClosed,
                                inflight, sync, pc, to_recv, body, short, ret,
                                consumed, sent>>
    /\ UNCHANGED <<apiVars, ctlVars>>

\* __recv_body: while to_recv > 0: buf = self.sock.recv(to_recv)
\* Faulty variant: body = buf instead of body = body + buf.
recv_body_chunk_overwrites(k) ==
    /\ inbuf' = SubSeq(inbuf, k + 1, Len(inbuf))
    /\ to_recv' = to_recv - k
    /\ body' = SubSeq(inbuf, 1, k)

recv_body_chunk(k) ==
    /\ inbuf' = SubSeq(inbuf, k + 1, Len(inbuf))
    /\ to_recv' = to_recv - k
    /\ body' = body \o SubSeq(inbuf, 1, k)

recv_body ==
    /\ pc = "body"
    /\ IF to_recv > 0
       THEN /\ CanRecv
            /\ IF inbuf = <<>>
               THEN RaiseEOF("body")
               ELSE /\ \E k \in 1..Min(to_recv, Len(inbuf)) :
                         /\ recv_body_chunk(k)
                         /\ short' = (short \/ k < to_recv)
                    /\ UNCHANGED <<sock, isconned, serv, closeCalls,
                                   peerClosed, inflight, sync, pc, length,
                                   ret, consumed, sent>>
       ELSE \* return body
            /\ pc' = "null"
            /\ UNCHANGED <<sock, isconned, serv, closeCalls, inbuf,
                           peerClosed, inflight, sync, length, to_recv, body, short,
                           ret, consumed, sent>>
    /\ UNCHANGED <<apiVars, ctlVars>>

\* __recv_null: c = self.sock.recv(1); then recv_msg returns body
\* Faulty variant: recv_msg returns without reading the trailing NUL.
recv_null_skipped ==
    /\ pc = "null"
    /\ Finish("none", body)
    /\ UNCHANGED inbuf
    /\ UNCHANGED <<apiVars, ctlVars>>

recv_null ==
    /\ pc = "null"
    /\ CanRecv
    /\ IF inbuf = <<>>
       THEN RaiseEOF("null")
       ELSE IF Head(inbuf) = NUL
            THEN /\ inbuf' = Tail(inbuf)
                 /\ Finish("none", body)
            ELSE /\ inbuf' = Tail(inbuf)
                 /\ UNCHANGED <<sock, isconned, serv, closeCalls, peerClosed,
                                inflight, sync, pc, length, to_recv, body, short,
                                ret, consumed, sent>>
    /\ UNCHANGED <<apiVars, ctlVars>>

(***************************************************************************)
(* Specifications of the Connection.                                       *)
(***************************************************************************)
\* Framing: one accepted socket after another, any traffic from the peer.
NextFrame ==
    \/ OpenAccept
    \/ EngineSend(EnginePayloads)
    \/ PairedSend
    \/ EngineSendTruncated
    \/ PeerClose
    \/ RecvMsgCall
    \/ recv_length
    \/ recv_body
    \/ recv_null

SpecFrame == Init /\ [][NextFrame]_vars

\* Lifecycle: every method of the Connection, little traffic.
NextConn ==
    \/ OpenTimeout
    \/ OpenAccept
    \/ OpenError
    \/ Close
    \/ SendMsg
    \/ EngineSend(LifePayloads)
    \/ EngineSendTruncated
    \/ PeerClose
    \/ RecvMsgCall
    \/ recv_length
    \/ recv_body
    \/ recv_null

SpecConn == Init /\ [][NextConn]_vars

(***************************************************************************)
(* Properties of the Connection.                                           *)
(***************************************************************************)
\* The last recv_msg has ended, and it began at the first byte of msg.
RecvEnded == pc = "idle" /\ ret.op = "recv_msg" /\ consumed.aligned
Returned(val) == ret.exc = "none" /\ ret.val = val

FirstNul(b) == CHOOSE i \in 1..Len(b) : b[i] = NUL /\ \A j \in 1..(i - 1) : b[j] # NUL
Declared(b) == int(SubSeq(b, 1, FirstNul(b) - 1))

\* C3: fed a frame 'L NUL P NUL', in whatever pieces recv() hands it over,
\* recv_msg returns exactly the L bytes that follow the first NUL of the
\* frame: as many bytes as declared, no fewer and no more.
C3_BodyIsDeclaredBytes ==
    (RecvEnded /\ consumed.msg.kind = "frame") =>
        LET b == consumed.msg.bytes IN
        /\ ret.exc = "none"
        /\ Len(ret.val) = Declared(b)
        /\ ret.val = SubSeq(b, FirstNul(b) + 1, FirstNul(b) + Declared(b))

\* A frame whose body arrived in short reads has been returned.
C3_Witness ==
    /\ RecvEnded
    /\ consumed.msg.kind = "frame"
    /\ consumed.short
    /\ ret.exc = "none"
    /\ Len(ret.val) = 12

\* C4: as long as the peer writes well-formed frames, whose payloads may hold
\* NUL bytes, consecutive recv_msg calls return their payloads in order and
\* each call leaves the read position at the first byte of the next frame:
\* what is unread is exactly the frames not yet returned.
C4_NoDesync ==
    /\ (pc = "idle" /\ sync) => inbuf = Flatten(inflight)
    /\ (RecvEnded /\ consumed.msg.kind = "frame")
           => (Returned(consumed.msg.payload) /\ sync)

\* A payload with NULs inside came back with a later frame waiting untouched.
C4_Witness ==
    /\ RecvEnded
    /\ consumed.msg.kind = "frame"
    /\ Returned(<<NUL, "2", NUL>>)
    /\ inflight # <<>>
    /\ Head(inflight).kind = "frame"
    /\ inbuf = Head(inflight).bytes

\* recv() is about to return '' to a recv_msg in progress.
ZeroRead ==
    /\ \/ pc \in {"length", "null"}
       \/ pc = "body" /\ to_recv > 0
    /\ inbuf = <<>>
    /\ peerClosed

\* C5: a read of zero bytes in any of the three phases of recv_msg makes it
\* raise EOFError, return no payload, and leave the Connection closed: the
\* socket closed and released, isconnected() 0.
C5_ZeroReadClosesAndRaises ==
    [][ZeroRead =>
          /\ ret' = Ret("recv_msg", "EOFError", <<>>, pc)
          /\ pc' = "idle"
          /\ sock' = None
          /\ isconned' = 0
          /\ closeCalls'[sock] = 1]_vars

\* The end of the stream came in the middle of a body.
C5_Witness ==
    /\ ret = Ret("recv_msg", "EOFError", <<>>, "body")
    /\ consumed.msg.kind = "partial"
    /\ sock = None
    /\ isconned = 0

\* C6: close() never fails in any state of the Connection, closes the
\* socket at most once, leaves isconnected() 0 and no socket held, and a
\* second close() changes nothing.
C6_CloseIdempotent ==
    /\ [](\A i \in 1..Len(closeCalls) : closeCalls[i] <= 1)
    /\ [](ret.op = "close" => (ret.exc = "none" /\ sock = None /\ isconned = 0))
    /\ [][(ret.op = "close" /\ ret'.op = "close")
              => UNCHANGED <<sock, isconned, serv, closeCalls>>]_vars
    /\ [](pc = "idle" => ENABLED Close)

\* close() after the socket was closed already.
C6_Witness ==
    /\ ret.op = "close"
    /\ Len(closeCalls) = 1
    /\ closeCalls[1] = 1
    /\ sock = None
    /\ isconned = 0

\* C7: open() that times out raises TimeoutError with isconnected() 0 and no
\* socket held; open() that accepts a peer returns with isconnected() 1; in
\* both cases the listening socket has been closed.
C7_OpenOutcomes ==
    /\ (ret.op = "open" /\ ret.exc = "TimeoutError")
           => (isconned = 0 /\ sock = None /\ serv = "closed")
    /\ (ret.op = "open" /\ ret.exc = "none")
           => (isconned = 1 /\ sock # None /\ serv = "closed")

\* open() has timed out.
C7_Witness ==
    /\ ret.op = "open"
    /\ ret.exc = "TimeoutError"
    /\ serv = "closed"
    /\ isconned = 0

(***************************************************************************)
(* Api (dbgp.py 85-156).  Text is a sequence of characters.                *)
(***************************************************************************)
\* The characters str.strip() removes; VT stands for '\x0b'.
VT == "VT"
Whitespace == {" ", "\t", "\n", "\r", "\f", VT}

RECURSIVE lstrip(_)
lstrip(t) ==
    IF t # <<>> /\ Head(t) \in Whitespace THEN lstrip(Tail(t)) ELSE t

RECURSIVE rstrip(_)
rstrip(t) ==
    IF t # <<>> /\ t[Len(t)] \in Whitespace
    THEN rstrip(SubSeq(t, 1, Len(t) - 1))
    ELSE t

strip(t) == rstrip(lstrip(t))

\* Attribute lookup on an instance falls back to the class; assignment to
\* self.name stores in the instance.
getattr(inst, cls, name) ==
    IF name \in DOMAIN inst THEN inst[name] ELSE cls[name]

setattr(inst, name, v) ==
    [a \in DOMAIN inst \cup {name} |-> IF a = name THEN v ELSE inst[a]]

\* self.transID += 1, as the pair of the instance and the class afterwards
\* Faulty variants: the incremented id is not stored; it is stored on the
\* class (Api.transID += 1), where every instance shares it.
incr_transID_not_stored(inst, cls) == [inst |-> inst, cls |-> cls]

incr_transID_on_class(inst, cls) ==
    [inst |-> inst,
     cls |-> [cls EXCEPT !.transID = getattr(inst, cls, "transID") + 1]]

incr_transID(inst, cls) ==
    [inst |-> setattr(inst, "transID", getattr(inst, cls, "transID") + 1),
     cls |-> cls]

\* send = cmd.strip() + ' -i ' + str(self.transID), then ' ' + args.strip()
\* if len(args) > 0
\* Faulty variant: the arguments are appended even when empty.
send_text_always_args(cmd, args, transID) ==
    strip(cmd) \o <<" ", "-", "i", " ">> \o str(transID)
        \o <<" ">> \o strip(args)

send_text(cmd, args, transID) ==
    strip(cmd) \o <<" ", "-", "i", " ">> \o str(transID)
        \o (IF Len(strip(args)) > 0 THEN <<" ">> \o strip(args) ELSE <<>>)

\* Response.__init__ (dbgp.py 10-33) on a payload r: the exception it
\* raises, "none" if it returns.  r.marker: the text holds "<error";
\* r.wellformed: ET.fromstring parses it; r.errorElem: where the payload
\* has an error element, "child" (a child of the root, the only place
\* xml.find('error') looks), "nested" (deeper in the tree) or "none";
\* r.code: the code attribute of that element; r.message: it has a
\* message child.
\* Faulty variants: the constructor does not look for an error; a missing
\* code is let through to the DBGPError.
Response_init_unchecked(r) == "none"

Response_init_code_unchecked(r) ==
    IF ~r.marker THEN "none"
    ELSE IF ~r.wellformed THEN "ParseError"
    ELSE IF r.errorElem # "child" THEN "AttributeError"
    ELSE IF ~r.message THEN "ResponseError"
    ELSE "DBGPError"

Response_init(r) ==
    IF ~r.marker THEN "none"
    ELSE IF ~r.wellformed THEN "ParseError"
    ELSE IF r.errorElem # "child" THEN "AttributeError"
    ELSE IF r.code = NoneAttr THEN "ResponseError"
    ELSE IF ~r.message THEN "ResponseError"
    ELSE "DBGPError"

\* The arguments of the exception Response.__init__ raises on r: the text
\* and, for a DBGPError, the code.
MessageText == "msg_el.text"
Response_exc_args(r) ==
    IF Response_init(r) = "DBGPError" THEN <<MessageText, r.code>>
    ELSE IF Response_init(r) = "ResponseError"
    THEN IF r.code = NoneAttr
         THEN <<"Missing error code in response">>
         ELSE <<"Missing error message in response">>
    ELSE <<>>

\* The __init__ that runs for a class: StatusResponse and
\* FeatureGetResponse define none and inherit Response.__init__.
init_of(cls) == "Response"

(***************************************************************************)
(* Inputs of the Api.                                                      *)
(***************************************************************************)
\* Text with whitespace around a core that has none at its ends.
Padded(lead, core, trail) == [raw |-> lead \o core \o trail, core |-> core]

CmdNames ==
    { Padded(<<>>, <<"r", "u", "n">>, <<>>),
      Padded(<<" ", "\t">>, <<"s", "t", "a", "t", "u", "s">>, <<"\n">>) }

CmdArgs ==
    { Padded(<<>>, <<>>, <<>>),
      Padded(<<" ">>, <<>>, <<"\t", " ">>),
      Padded(<<" ">>, <<"-", "n", " ", "x">>, <<"\r", "\n">>) }

ResponseClasses == {"Response", "StatusResponse", "FeatureGetResponse"}

Reply(marker, wellformed, errorElem, code, message) ==
    [marker |-> marker, wellformed |-> wellformed, errorElem |-> errorElem,
     code |-> code, message |-> message]

\* What the engine may answer: a plain response, an error response, error
\* responses lacking the code, the message or both, an error element deeper
\* than the root's children (complete, and lacking its code), "<error" in
\* text that is not an error element, and text that is no XML.
Replies ==
    { Reply(FALSE, TRUE, "none", NoneAttr, FALSE),
      Reply(TRUE, TRUE, "child", "5", TRUE),
      Reply(TRUE, TRUE, "child", NoneAttr, TRUE),
      Reply(TRUE, TRUE, "child", "5", FALSE),
      Reply(TRUE, TRUE, "child", NoneAttr, FALSE),
      Reply(TRUE, TRUE, "nested", "5", TRUE),
      Reply(TRUE, TRUE, "nested", NoneAttr, TRUE),
      Reply(TRUE, TRUE, "none", NoneAttr, FALSE),
      Reply(TRUE, FALSE, "none", NoneAttr, FALSE) }

\* The replies a send_cmd is followed through with: a plain response, a
\* protocol error, a malformed error response and text that is no XML (the
\* constructor is run on every reply under SpecResponse).
WireReplies ==
    { Reply(FALSE, TRUE, "none", NoneAttr, FALSE),
      Reply(TRUE, TRUE, "child", "5", TRUE),
      Reply(TRUE, TRUE, "child", NoneAttr, TRUE),
      Reply(TRUE, FALSE, "none", NoneAttr, FALSE) }

InitMessage(wellformed, language, idekey, fileuri) ==
    [wellformed |-> wellformed, language |-> language, idekey |-> idekey,
     api_version |-> "1.0", fileuri |-> fileuri]

InitMsgs ==
    { InitMessage(TRUE, "php", "k1", "file:///a.php"),
      InitMessage(TRUE, "python", "k2", "file:///a.py"),
      InitMessage(TRUE, NoneAttr, "k1", "file:///a.php"),
      InitMessage(TRUE, NoneAttr, "k2", "file:///a.py"),
      InitMessage(FALSE, NoneAttr, NoneAttr, NoneAttr) }

ExpIdekeys == {NoneAttr, "k1"}

\* What a blocking Connection call meets: recv_msg returns the payload of
\* the engine's next frame, or reads the end of the stream (close, EOFError),
\* or reads a length prefix without digits (ValueError).
RecvOutcomes(payloads) ==
    { [kind |-> "msg", msg |-> m] : m \in payloads }
        \cup { [kind |-> k, msg |-> NoneAttr] : k \in {"EOFError", "ValueError"} }

OpenOutcomes == {"accept", "TimeoutError", "error"}

(***************************************************************************)
(* Api.__init__ and Api.__parse_init_msg (dbgp.py 95-128).                 *)
(***************************************************************************)
\* The attributes __init__ sets before it touches the connection.
init_attrs(exp_idekey) ==
    [language |-> NoneAttr, protocol |-> NoneAttr, exp_idekey |-> exp_idekey,
     idekey |-> NoneAttr, startfile |-> NoneAttr, conn |-> "connection"]

\* __parse_init_msg: the exception it raises, "none" if it returns.
\* Faulty variant: the announced idekey is not compared.
parse_init_exc_any_idekey(exp_idekey, msg) ==
    IF ~msg.wellformed THEN "ParseError"
    ELSE IF msg.language = NoneAttr THEN "ResponseError"
    ELSE "none"

parse_init_exc(exp_idekey, msg) ==
    IF ~msg.wellformed THEN "ParseError"
    ELSE IF msg.language = NoneAttr THEN "ResponseError"
    ELSE IF exp_idekey # NoneAttr /\ msg.idekey # exp_idekey
         THEN "WrongIDEKeyException"
    ELSE "none"

\* __parse_init_msg: the attributes it leaves when it returns.
parse_init_msg(inst, msg) ==
    [a \in DOMAIN inst \cup {"version"} |->
        CASE a = "language" -> msg.language
          [] a = "idekey" -> msg.idekey
          [] a = "version" -> msg.api_version
          [] a = "startfile" -> msg.fileuri
          [] OTHER -> inst[a]]

\* A call of a Connection method; io: it reached the socket (send_msg on a
\* closed Connection raises on self.sock.send before anything is written).
Call(op, io) == [op |-> op, io |-> io]

\* The Connection methods __init__ calls on the connection c when open()
\* ends as o: open() only if c.isconnected() == 0, then one recv_msg().
\* Faulty variant: a command is written before the init message is read.
init_calls_writes_first(c, o) ==
    IF c.isconned = 0
    THEN IF o = "accept"
         THEN <<Call("open", TRUE), Call("send_msg", TRUE),
                Call("recv_msg", TRUE)>>
         ELSE <<Call("open", TRUE)>>
    ELSE <<Call("send_msg", TRUE), Call("recv_msg", TRUE)>>

init_calls(c, o) ==
    IF c.isconned = 0
    THEN IF o = "accept"
         THEN <<Call("open", TRUE), Call("recv_msg", TRUE)>>
         ELSE <<Call("open", TRUE)>>
    ELSE <<Call("recv_msg", TRUE)>>

\* The constructor failed: the caller holds no instance.
NoInstance(exc) ==
    /\ api' = NoAttrs
    /\ apiLive' = FALSE
    /\ initMsg' = NoInitMsg
    /\ apiRet' = ApiRet("__init__", exc, "none")

ApiInit(Keys) ==
    /\ pc = "idle"
    /\ nApis < MaxApis
    /\ nApis' = nApis + 1
    /\ wire' = <<>>
    /\ prevWrote' = (prevWrote \/ wire # <<>>)
    /\ UNCHANGED <<apiClass, resp, out>>
    /\ UNCHANGED <<inbuf, peerClosed, inflight, sync, pc, length, to_recv,
                   body, short, ret, consumed, sent>>
    /\ \E exp_idekey \in Keys, o \in OpenOutcomes,
          r \in RecvOutcomes(InitMsgs) :
         /\ calls' = init_calls(Conn, o)
         /\ handshake' =
                [exp_idekey |-> exp_idekey,
                 msg |-> IF (CanOpen => o = "accept") /\ r.kind = "msg"
                         THEN r.msg ELSE NoInitMsg]
         /\ IF CanOpen /\ o = "TimeoutError"
            THEN /\ SetConn(open_timeout(Conn))
                 /\ NoInstance("TimeoutError")
            ELSE IF CanOpen /\ o = "error"
            THEN /\ SetConn(open_error(Conn))
                 /\ NoInstance("error")
            ELSE LET c == IF CanOpen THEN open_accept(Conn) ELSE Conn IN
                 IF r.kind = "EOFError"
                 THEN /\ SetConn(close(c))
                      /\ NoInstance("EOFError")
                 ELSE IF r.kind = "ValueError"
                 THEN /\ SetConn(c)
                      /\ NoInstance("ValueError")
                 ELSE /\ SetConn(c)
                      /\ IF parse_init_exc(exp_idekey, r.msg) # "none"
                         THEN NoInstance(parse_init_exc(exp_idekey, r.msg))
                         ELSE /\ api' = parse_init_msg(init_attrs(exp_idekey), r.msg)
                              /\ apiLive' = TRUE
                              /\ initMsg' = r.msg
                              /\ apiRet' = ApiRet("__init__", "none", "Api")

Api_init == ApiInit(ExpIdekeys) /\ UNCHANGED ctlVars

(***************************************************************************)
(* Api.send_cmd (dbgp.py 130-156).                                         *)
(***************************************************************************)
\* The Connection methods send_cmd calls on the connection c: send_msg and,
\* when that returned, one recv_msg.
\* Faulty variant: the command is written twice before the response is read.
send_cmd_calls_resends(c) ==
    IF c.sock = None THEN <<Call("send_msg", FALSE)>>
    ELSE <<Call("send_msg", TRUE), Call("send_msg", TRUE),
           Call("recv_msg", TRUE)>>

send_cmd_calls(c) ==
    IF c.sock = None THEN <<Call("send_msg", FALSE)>>
    ELSE <<Call("send_msg", TRUE), Call("recv_msg", TRUE)>>

WireEntry(name, args, text) ==
    [name |-> name, args |-> args, text |-> text, bytes |-> send_msg_bytes(text)]

\* What send_cmd raises on the connection c when recv_msg ends as r, "none"
\* if it returns a response.
send_cmd_exc(c, r) ==
    IF c.sock = None THEN "AttributeError"
    ELSE IF r.kind \in {"EOFError", "ValueError"} THEN r.kind
    ELSE Response_init(r.msg)

\* The connection c when send_cmd is over: recv_msg closes it before it
\* raises EOFError.
send_cmd_conn(c, r) ==
    IF c.sock # None /\ r.kind = "EOFError" THEN close(c) ELSE c

\* The session after detach() or stop() whose command ended with exc: it is
\* idle and its Connection is closed.
\* Faulty variant: a command that fails leaves the session as it was.
session_end_unless_failed(c, exc) ==
    IF exc = "none" THEN [session |-> "idle", conn |-> close(c)]
    ELSE [session |-> "active", conn |-> c]

session_end(c, exc) == [session |-> "idle", conn |-> close(c)]

\* send_cmd; ends: its caller is the session's detach() or stop(), which
\* then ends the session, else the connection stays as send_cmd left it.
SendCmdThen(Cmds, Args, ends) ==
    /\ pc = "idle"
    /\ apiLive
    /\ getattr(api, apiClass, "transID") < MaxCmds
    /\ UNCHANGED <<apiLive, nApis, initMsg, prevWrote, handshake, resp,
                   out>>
    /\ UNCHANGED <<inbuf, peerClosed, inflight, sync, pc, length, to_recv,
                   body, short, ret, consumed, sent>>
    /\ \E cmd \in Cmds, args \in Args, r \in RecvOutcomes(WireReplies) :
         LET a == incr_transID(api, apiClass)
             text == send_text(cmd.raw, args.raw,
                               getattr(a.inst, a.cls, "transID"))
             exc == send_cmd_exc(Conn, r)
         IN  /\ api' = a.inst
             /\ apiClass' = a.cls
             /\ calls' = calls \o send_cmd_calls(Conn)
             /\ wire' = IF sock = None
                        THEN \* self.conn.send_msg: None has no attribute send
                             wire
                        ELSE Append(wire, WireEntry(cmd.core, args.core, text))
             /\ SetConn(IF ends
                        THEN session_end(send_cmd_conn(Conn, r), exc).conn
                        ELSE send_cmd_conn(Conn, r))
             /\ IF exc = "none"
                THEN \E res_cls \in ResponseClasses :
                       apiRet' = ApiRet("send_cmd", "none", res_cls)
                ELSE apiRet' = ApiRet("send_cmd", exc, "none")

SendCmd(Cmds, Args) == SendCmdThen(Cmds, Args, FALSE)

send_cmd == SendCmd(CmdNames, CmdArgs) /\ UNCHANGED ctlVars

(***************************************************************************)
(* Specification of the Api: sessions one after another on a Connection.   *)
(***************************************************************************)
NextApi ==
    \/ Api_init
    \/ send_cmd
    \/ Close

SpecApi == Init /\ [][NextApi]_vars

(***************************************************************************)
(* res_cls(msg, cmd, args) (dbgp.py 10-33, 64-83, 156): a response of any  *)
(* class built from any payload for any command.                           *)
(***************************************************************************)
Response_new ==
    /\ \E cls \in ResponseClasses, cmd \in CmdNames, args \in CmdArgs,
          r \in Replies :
         resp' = [cls |-> cls, init |-> init_of(cls), response |-> r,
                  cmd |-> cmd.raw, cmd_args |-> args.raw,
                  exc |-> Response_init(r), args |-> Response_exc_args(r)]
    /\ UNCHANGED connVars
    /\ UNCHANGED <<apiClass, api, apiLive, nApis, initMsg, wire, prevWrote,
                   apiRet, calls, handshake, out>>
    /\ UNCHANGED ctlVars

NextResponse == Response_new

SpecResponse == Init /\ [][NextResponse]_vars

(***************************************************************************)
(* The command methods of Api (dbgp.py 158-243) and the string forms of    *)
(* the response classes (dbgp.py 60-83).                                   *)
(***************************************************************************)
\* What a method returns or raises.
Val(v) == [exc |-> "none", val |-> v]
Exc(e) == [exc |-> e, val |-> NoneAttr]

\* A reply with what the accessors read: the payload text, the root's
\* status and supported attributes and its text, None where it has none.
TypedReply(r, raw, status, supported, text) ==
    [marker |-> r.marker, wellformed |-> r.wellformed,
     errorElem |-> r.errorElem, code |-> r.code, message |-> r.message,
     raw |-> raw, status |-> status, supported |-> supported, text |-> text]

\* The supported attribute is text; this stands for a root without it.
NoSupported == <<NoneAttr>>

PlainReply == Reply(FALSE, TRUE, "none", NoneAttr, FALSE)

TypedReplies ==
    { TypedReply(PlainReply, "r1", "starting", NoSupported, NoneAttr),
      TypedReply(PlainReply, "r2", "break", NoSupported, NoneAttr),
      TypedReply(PlainReply, "r3", "stopping", <<"1">>, "utf-8"),
      TypedReply(PlainReply, "r4", NoneAttr, <<"1">>, "utf-8"),
      TypedReply(PlainReply, "r5", NoneAttr, <<"0">>, "utf-8"),
      TypedReply(PlainReply, "r6", NoneAttr, <<"0">>, NoneAttr),
      TypedReply(PlainReply, "r7", NoneAttr, <<"2">>, "1"),
      TypedReply(PlainReply, "r8", NoneAttr, <<"0", "1">>, "iso-8859-1"),
      TypedReply(PlainReply, "r9", NoneAttr, <<"0", "0">>, "utf-8"),
      TypedReply(PlainReply, "r10", NoneAttr, <<"1">>, NoneAttr),
      TypedReply(PlainReply, "r11", "stopped", <<"y">>, "utf-8"),
      TypedReply(PlainReply, "r12", NoneAttr, NoSupported, NoneAttr),
      TypedReply(Reply(FALSE, FALSE, "none", NoneAttr, FALSE), "r13",
                 NoneAttr, NoSupported, NoneAttr),
      TypedReply(Reply(TRUE, TRUE, "child", "5", TRUE), "r14",
                 "break", <<"1">>, "utf-8") }

\* Response.as_string / Response.__str__: the payload as received.
Response_str(r) == Val(r.raw)

\* StatusResponse.__str__: self.as_xml().get('status'); a __str__ that
\* returns None makes str() raise TypeError.
\* Faulty variant: the inherited __str__.
StatusResponse_str_inherited(r) == Response_str(r)

StatusResponse_str(r) ==
    IF ~r.wellformed THEN Exc("ParseError")
    ELSE IF r.status = NoneAttr THEN Exc("TypeError")
    ELSE Val(r.status)

\* int(x) accepts the decimal numerals (of the attribute values here).
IsNumeral(x) == x # <<>> /\ \A i \in 1..Len(x) : isdigit(x[i])

\* FeatureGetResponse.is_supported: int(xml.get('supported'))
\* Faulty variant: supported only when the attribute is "1".
is_supported_only_one(r) ==
    IF ~r.wellformed THEN Exc("ParseError")
    ELSE IF r.supported = NoSupported THEN Exc("TypeError")
    ELSE IF ~IsNumeral(r.supported) THEN Exc("ValueError")
    ELSE Val(IF r.supported = <<"1">> THEN 1 ELSE 0)

is_supported(r) ==
    IF ~r.wellformed THEN Exc("ParseError")
    ELSE IF r.supported = NoSupported THEN Exc("TypeError")
    ELSE IF ~IsNumeral(r.supported) THEN Exc("ValueError")
    ELSE Val(int(r.supported))

NotSupportedText == "* Feature not supported *"

\* FeatureGetResponse.__str__
FeatureGetResponse_str(r) ==
    IF is_supported(r).exc # "none" THEN is_supported(r)
    ELSE IF is_supported(r).val # 0
    THEN IF r.text = NoneAttr THEN Exc("TypeError") ELSE Val(r.text)
    ELSE Val(NotSupportedText)

\* str(response) for a response of class cls.
str_of(cls, r) ==
    IF cls = "StatusResponse" THEN StatusResponse_str(r)
    ELSE IF cls = "FeatureGetResponse" THEN FeatureGetResponse_str(r)
    ELSE Response_str(r)

\* A command method: the command, the arguments and the response class it
\* passes to send_cmd.
ApiMethod(name, cmd, args, cls) ==
    [name |-> name, cmd |-> cmd, args |-> args, res_cls |-> cls]

StatusMethod(name, cmd) == ApiMethod(name, cmd, <<>>, "StatusResponse")

\* Feature names, feature values and breakpoint arguments passed in.
FeatureNames == { <<"e", "n", "c", "o", "d", "i", "n", "g">>, <<"x">> }
FeatureValues == { <<"1">> }
BreakpointArgs == { <<"-", "t", " ", "l", "i", "n", "e", " ", "-", "n", " ", "1", "0">> }

ApiMethods ==
    { StatusMethod("status", <<"s", "t", "a", "t", "u", "s">>),
      StatusMethod("run", <<"r", "u", "n">>),
      StatusMethod("step_into", <<"s", "t", "e", "p", "_", "i", "n", "t", "o">>),
      StatusMethod("step_over", <<"s", "t", "e", "p", "_", "o", "v", "e", "r">>),
      StatusMethod("step_out", <<"s", "t", "e", "p", "_", "o", "u", "t">>),
      StatusMethod("stop", <<"s", "t", "o", "p">>),
      StatusMethod("stack_get", <<"s", "t", "a", "c", "k", "_", "g", "e", "t">>),
      StatusMethod("detach", <<"d", "e", "t", "a", "c", "h">>) }
    \cup { ApiMethod("feature_get", <<"f", "e", "a", "t", "u", "r", "e", "_", "g", "e", "t">>,
                     <<"-", "n", " ">> \o n, "FeatureGetResponse") :
             n \in FeatureNames }
    \cup { ApiMethod("feature_set", <<"f", "e", "a", "t", "u", "r", "e", "_", "s", "e", "t">>,
                     <<"-", "n", " ">> \o n \o <<" ", "-", "v", " ">> \o v, "Response") :
             n \in FeatureNames, v \in FeatureValues }
    \cup { ApiMethod("breakpoint_set", <<"b", "r", "e", "a", "k", "p", "o", "i", "n", "t", "_", "s", "e", "t">>, a, "Response") :
             a \in BreakpointArgs }

\* One command method on an Api whose transID was id - 1, answered by r:
\* send_cmd composes the text, constructs res_cls(msg, cmd, args), and the
\* caller takes is_supported() and str() of what it got.
Api_method ==
    /\ \E mth \in ApiMethods, id \in 1..MaxCmds, r \in TypedReplies :
         out' = [method |-> mth.name, id |-> id,
                 sent |-> send_text(mth.cmd, mth.args, id),
                 cls |-> mth.res_cls, reply |-> r,
                 exc |-> Response_init(r),
                 supported |-> IF mth.res_cls = "FeatureGetResponse"
                               THEN is_supported(r) ELSE Exc("AttributeError"),
                 str |-> str_of(mth.res_cls, r)]
    /\ UNCHANGED connVars
    /\ UNCHANGED <<apiClass, api, apiLive, nApis, initMsg, wire, prevWrote,
                   apiRet, calls, handshake, resp>>
    /\ UNCHANGED ctlVars

NextTyped == Api_method

SpecTyped == Init /\ [][NextTyped]_vars

(***************************************************************************)
(* ExceptionHandler (util.py 24-108).                                      *)
(***************************************************************************)
\* self.readable_errors (util.py 27-31)
ReadableErrors ==
    {"EventError", "BreakpointError", "LogError", "NoConnectionError",
     "ModifiedBufferError"}

\* A message to the user: ui().say(text), ui().error(text) or a print past
\* the ui() object.
Ui(call, text) == [call |-> call, text |-> text]

\* The exception a failing stop() raises.
StopFailed == "StopFailed"

\* The branch of handle(e) the isinstance chain takes; socket.error is the
\* class named error.
handler_of(e) ==
    IF e = "TimeoutError" THEN "handle_timeout"
    ELSE IF e = "UserInterrupt" THEN "handle_interrupt"
    ELSE IF e \in ReadableErrors THEN "handle_readable_error"
    ELSE IF e = "DBGPError" THEN "handle_dbgp_error"
    ELSE IF e \in {"EOFError", "error"} THEN "handle_socket_end"
    ELSE IF e = "KeyboardInterrupt" THEN "KeyboardInterrupt"
    ELSE "handle_general_exception"

\* handle(e) when a stop() it calls ends as ok says (TRUE: it returns).
\* Faulty variant: a protocol error is treated like the end of the socket.
handle_dbgp_error_stops(e, ok) ==
    LET h == IF e = "DBGPError" THEN "handle_socket_end" ELSE handler_of(e)
    IN  CASE h = "handle_timeout" ->
               IF ok
               THEN Handled(e, <<Ui("say", "No connection was made")>>, 1,
                            TRUE, "none")
               ELSE Handled(e, <<>>, 1, FALSE, StopFailed)
          [] h = "handle_interrupt" ->
               IF ok
               THEN Handled(e, <<Ui("say", "Connection cancelled")>>, 1,
                            TRUE, "none")
               ELSE Handled(e, <<>>, 1, FALSE, "none")
          [] h = "handle_readable_error" ->
               Handled(e, <<Ui("error", "str(e)")>>, 0, FALSE, "none")
          [] h = "handle_dbgp_error" ->
               Handled(e, <<Ui("error", "str(e.args[0])")>>, 0, FALSE, "none")
          [] h = "handle_socket_end" ->
               Handled(e, <<Ui("say",
                               "Connection to the debugger has been closed")>>,
                       1, ok, IF ok THEN "none" ELSE StopFailed)
          [] h = "KeyboardInterrupt" ->
               Handled(e, <<Ui("print", "Keyboard interrupt - debugging session cancelled")>>,
                       1, ok, "none")
          [] OTHER ->
               Handled(e, <<Ui("error", "An error occured")>>, 0, FALSE,
                       "none")

handle(e, ok) ==
    LET h == handler_of(e)
    IN  CASE h = "handle_timeout" ->
               \* stop(); say(...)
               IF ok
               THEN Handled(e, <<Ui("say", "No connection was made")>>, 1,
                            TRUE, "none")
               ELSE Handled(e, <<>>, 1, FALSE, StopFailed)
          [] h = "handle_interrupt" ->
               \* try: stop(); say(...)  except: pass
               IF ok
               THEN Handled(e, <<Ui("say", "Connection cancelled")>>, 1,
                            TRUE, "none")
               ELSE Handled(e, <<>>, 1, FALSE, "none")
          [] h = "handle_readable_error" ->
               Handled(e, <<Ui("error", "str(e)")>>, 0, FALSE, "none")
          [] h = "handle_dbgp_error" ->
               Handled(e, <<Ui("error", "str(e.args[0])")>>, 0, FALSE, "none")
          [] h = "handle_socket_end" ->
               \* say(...); stop()
               Handled(e, <<Ui("say",
                               "Connection to the debugger has been closed")>>,
                       1, ok, IF ok THEN "none" ELSE StopFailed)
          [] h = "KeyboardInterrupt" ->
               \* print(...); try: stop()  except: pass
               Handled(e, <<Ui("print", "Keyboard interrupt - debugging session cancelled")>>,
                       1, ok, "none")
          [] OTHER ->
               Handled(e, <<Ui("error", "An error occured")>>, 0, FALSE,
                       "none")

\* The session handler's stop(): the session ends and its Connection is
\* closed.
session_stop(c) == [session |-> "idle", conn |-> close(c)]

\* ExceptionHandler.handle(e) on the exception that was raised.
Handle ==
    /\ pending # "none"
    /\ pc = "idle"
    /\ pending' = "none"
    /\ \E ok \in BOOLEAN :
         /\ handled' = handle(pending, ok)
         /\ IF handle(pending, ok).stopped
            THEN /\ session' = session_stop(Conn).session
                 /\ SetConn(session_stop(Conn).conn)
            ELSE /\ UNCHANGED session
                 /\ SetConn(Conn)
    /\ UNCHANGED <<inbuf, peerClosed, inflight, sync, pc, length, to_recv,
                   body, short, ret, consumed, sent>>
    /\ UNCHANGED <<apiVars, lisVars>>

(***************************************************************************)
(* The session over an Api: it is started, runs commands, and passes what  *)
(* they raise to the ExceptionHandler.                                     *)
(***************************************************************************)
SessionCmds == {Padded(<<>>, <<"r", "u", "n">>, <<>>)}
SessionArgs == {Padded(<<>>, <<>>, <<>>)}

\* What other parts of the program raise towards the handler.
Raised ==
    {"TimeoutError", "UserInterrupt", "NoConnectionError",
     "KeyboardInterrupt", "error"}

SessionStart ==
    /\ session = "idle"
    /\ pending = "none"
    /\ ApiInit({NoneAttr})
    /\ session' = IF apiLive' THEN "active" ELSE "idle"
    /\ pending' = apiRet'.exc
    /\ UNCHANGED <<handled, lisVars>>

SessionCommand ==
    /\ session = "active"
    /\ pending = "none"
    /\ SendCmd(SessionCmds, SessionArgs)
    /\ pending' = apiRet'.exc
    /\ UNCHANGED <<session, handled, lisVars>>

Raise ==
    /\ pending = "none"
    /\ pc = "idle"
    /\ pending' \in Raised
    /\ UNCHANGED <<connVars, apiVars, session, handled, lisVars>>

NextSession ==
    \/ SessionStart
    \/ SessionCommand
    \/ Raise
    \/ Handle

SpecSession == Init /\ [][NextSession]_vars

(***************************************************************************)
(* detach() and stop() on an active session (debugger_interface.py         *)
(* 154-167, dbgp.py 223-240).                                              *)
(***************************************************************************)
\* Api.detach / Api.stop: send_cmd('detach','',...), send_cmd('stop','',...)
EndCmds ==
    { Padded(<<>>, <<"d", "e", "t", "a", "c", "h">>, <<>>),
      Padded(<<>>, <<"s", "t", "o", "p">>, <<>>) }

\* Session.detach / Session.close_connection: the command goes to the
\* engine, the session ends, and what the command raised goes to the
\* ExceptionHandler.
SessionEnd ==
    /\ session = "active"
    /\ pending = "none"
    /\ SendCmdThen(EndCmds, SessionArgs, TRUE)
    /\ session' = session_end(Conn, apiRet'.exc).session
    /\ pending' = apiRet'.exc
    /\ nEnds' = nEnds + 1
    /\ UNCHANGED <<handled, thread, pendingSock, nAccepted, handed,
                   sessSock, nStarts, nReloads, nListens, printed, nExec,
                   lastExec, nDispatched, ctor, attrs, servs, nOpenCalls,
                   sideVars>>

NextTeardown ==
    \/ SessionStart
    \/ SessionCommand
    \/ SessionEnd
    \/ Handle

SpecTeardown == Init /\ [][NextTeardown]_vars

(***************************************************************************)
(* Listener (listener.py) over its socket server, and                      *)
(* DebuggerInterface.listen / close (debugger_interface.py 41-52, 159-167). *)
(***************************************************************************)
\* The listener with its server as one value l: l.thread, l.pendingSock.
Lis == [thread |-> thread, pendingSock |-> pendingSock]

\* Listener.is_ready: self.__server.has_socket()
is_ready(l) == l.pendingSock # None

\* Listener.is_listening: not self.is_ready() and self.__server.is_alive()
is_listening(l) == ~is_ready(l) /\ l.thread

\* The server: start() runs an accept loop, stop() ends it and drops a
\* socket nobody picked up, socket() gives the pending socket away.
server_start(l) == [l EXCEPT !.thread = TRUE]
server_stop(l) == [l EXCEPT !.thread = FALSE, !.pendingSock = None]
server_socket(l) == [sock |-> l.pendingSock,
                     lis |-> [l EXCEPT !.pendingSock = None]]

\* Listener.start / Listener.stop
Listener_start(l) == server_start(l)
Listener_stop(l) == server_stop(l)

\* Listener.create_connection: the handler over the server's socket, and
\* the listener after self.stop().
\* Faulty variant: the server is left running.
create_connection_keeps_server(l) ==
    [handler |-> server_socket(l).sock, lis |-> server_socket(l).lis]

create_connection(l) ==
    [handler |-> server_socket(l).sock,
     lis |-> Listener_stop(server_socket(l).lis)]

\* The branch DebuggerInterface.listen takes.
\* Faulty variant: the listener is not asked whether it is listening.
listen_branch_unasked(l) ==
    IF is_ready(l) THEN "found" ELSE "start"

listen_branch(l) ==
    IF is_listening(l) THEN "waiting"
    ELSE IF is_ready(l) THEN "found"
    ELSE "start"

SetLis(l) ==
    /\ thread' = l.thread
    /\ pendingSock' = l.pendingSock

ListenCall ==
    /\ nListens < MaxListens
    /\ nListens' = nListens + 1
    /\ CASE listen_branch(Lis) = "waiting" ->
             /\ printed' = "Already waiting for a connection: none found so far"
             /\ SetLis(Lis)
             /\ UNCHANGED <<handed, sessSock, session, uiOpen, nStarts,
                            nReloads>>
         [] listen_branch(Lis) = "found" ->
             \* self.session.start(self.listener.create_connection())
             /\ printed' = "Found connection, starting debugger"
             /\ SetLis(create_connection(Lis).lis)
             /\ handed' = Append(handed, create_connection(Lis).handler)
             /\ sessSock' = create_connection(Lis).handler
             /\ session' = "active"
             /\ uiOpen' = TRUE
             /\ UNCHANGED <<nStarts, nReloads>>
         [] OTHER ->
             \* self.__reload_environment(); self.listener.start()
             /\ printed' = "Vdebug will wait for a connection in the background"
             /\ nReloads' = nReloads + 1
             /\ SetLis(Listener_start(Lis))
             /\ nStarts' = nStarts + 1
             /\ UNCHANGED <<handed, sessSock, session, uiOpen>>
    /\ UNCHANGED <<connVars, apiVars, pending, handled, nAccepted, openVars,
                   restVars, closes>>

listen == ListenCall /\ UNCHANGED exeVars

\* The DebuggerInterface as one value d: the session (connected, the socket
\* it owns, its UI open) and the listener.
DI == [connected |-> session = "active", sock |-> sessSock, open |-> uiOpen,
       lis |-> Lis]

\* Session.close_connection: the connection is closed, the UI stays.
close_connection(d) == [d EXCEPT !.connected = FALSE, !.sock = None]

\* Session.close: the connection, if any, and the UI are closed.
session_close(d) == [close_connection(d) EXCEPT !.open = FALSE]

\* The layer DebuggerInterface.close closes.
close_layer(d) ==
    IF d.connected THEN "connection"
    ELSE IF d.open THEN "session"
    ELSE "listener"

\* DebuggerInterface.close: the session's connection if it is connected,
\* else the session if its UI is open, else the listener.
\* Faulty variant: a connected session is closed with its UI.
DebuggerInterface_close_with_ui(d) ==
    IF d.connected THEN session_close(d)
    ELSE IF d.open THEN session_close(d)
    ELSE [d EXCEPT !.lis = Listener_stop(d.lis)]

DebuggerInterface_close(d) ==
    IF d.connected THEN close_connection(d)
    ELSE IF d.open THEN session_close(d)
    ELSE [d EXCEPT !.lis = Listener_stop(d.lis)]

di_close ==
    /\ Len(closes) < MaxCloses
    /\ closes' = Append(closes, close_layer(DI))
    /\ session' = IF DebuggerInterface_close(DI).connected
                  THEN "active" ELSE "idle"
    /\ sessSock' = DebuggerInterface_close(DI).sock
    /\ uiOpen' = DebuggerInterface_close(DI).open
    /\ SetLis(DebuggerInterface_close(DI).lis)
    /\ UNCHANGED <<connVars, apiVars, pending, handled, nAccepted, handed,
                   nStarts, nReloads, nListens, printed, exeVars, openVars,
                   restVars>>

\* The accept loop: a peer connects while no socket is pending; the loop
\* may end with that or stay alive until it is stopped.
Accept ==
    /\ thread
    /\ pendingSock = None
    /\ nAccepted < MaxPeers
    /\ nAccepted' = nAccepted + 1
    /\ pendingSock' = nAccepted + 1
    /\ thread' \in BOOLEAN
    /\ UNCHANGED <<connVars, apiVars, sessVars, handed, sessSock, nStarts,
                   nReloads, nListens, printed, exeVars, openVars,
                   sideVars>>

\* The accept loop gives up: nobody connected within the timeout.
AcceptTimeout ==
    /\ thread
    /\ pendingSock = None
    /\ thread' = FALSE
    /\ UNCHANGED <<connVars, apiVars, sessVars, pendingSock, nAccepted,
                   handed, sessSock, nStarts, nReloads, nListens, printed,
                   exeVars, openVars,
                   sideVars>>

NextListen ==
    \/ listen
    \/ di_close
    \/ Accept
    \/ AcceptTimeout

SpecListen == Init /\ [][NextListen]_vars

(***************************************************************************)
(* DebuggerInterface's execution commands (debugger_interface.py 54-80).   *)
(***************************************************************************)
\* self.session.is_connected()
is_connected == session = "active"

\* The commands that go straight to self.session.dispatch_event(name).
DispatchedCmds == {"run_to_cursor", "step_over", "step_into", "step_out"}

\* Session.dispatch_event(name) for an execution event: a connected session
\* carries it out on its connection, a session that is not connected turns
\* it down.
dispatch_event ==
    /\ nDispatched' = IF is_connected THEN nDispatched + 1 ELSE nDispatched
    /\ UNCHANGED <<connVars, apiVars, sessVars, thread, pendingSock,
                   nAccepted, handed, sessSock, nStarts, nReloads, nListens,
                   printed, openVars, sideVars>>

\* DebuggerInterface.run: the event when connected, else self.listen().
di_run ==
    /\ nExec < MaxExec
    /\ nExec' = nExec + 1
    /\ lastExec' = "run"
    /\ UNCHANGED nEnds
    /\ IF is_connected
       THEN dispatch_event
       ELSE ListenCall /\ UNCHANGED nDispatched

\* DebuggerInterface.run_to_cursor / step_over / step_into / step_out
di_step ==
    /\ nExec < MaxExec
    /\ nExec' = nExec + 1
    /\ lastExec' \in DispatchedCmds
    /\ UNCHANGED nEnds
    /\ dispatch_event

NextCommands ==
    \/ listen
    \/ di_close
    \/ Accept
    \/ AcceptTimeout
    \/ di_run
    \/ di_step

SpecCommands == Init /\ [][NextCommands]_vars

(***************************************************************************)
(* Connection.__init__ (connection.py 15-26) and the accept wait of        *)
(* Connection.open (connection.py 36-57), each open() with the listening   *)
(* socket it makes.                                                        *)
(***************************************************************************)
\* Arguments a caller constructs a Connection with.
Ctors ==
    { CtorArgs(DefaultHost, DefaultPort, DefaultTimeout),
      CtorArgs("localhost", 9001, 1),
      CtorArgs(DefaultHost, 9001, DefaultTimeout),
      CtorArgs("localhost", DefaultPort, 1) }

\* How the accept() of an open() can end: a peer, socket.timeout, a
\* socket.error, or the user's interrupt.
AcceptEnds == {"accept", "TimeoutError", "error", "KeyboardInterrupt"}

\* serv = socket.socket(...); serv.settimeout(self.timeout);
\* serv.bind((self.host, self.port)); serv.listen(5); serv.accept()
Listening(a, end) ==
    [host |-> a.host, port |-> a.port, timeout |-> a.timeout, end |-> end]

\* The listening sockets after one more open().
\* Faulty variant: an open() after the first waits on the socket of the
\* open() before it.
open_serv_reused(ss, a, end) ==
    IF ss = <<>> THEN <<Listening(a, end)>> ELSE ss

open_serv(ss, a, end) == Append(ss, Listening(a, end))

\* The Connection after an open() whose accept() ended as end.
open_end(c, end) ==
    IF end = "accept" THEN open_accept(c)
    ELSE IF end = "TimeoutError" THEN open_timeout(c)
    ELSE open_error(c)

\* The variables of the listener proper.
lisOwn == <<thread, pendingSock, nAccepted, handed, sessSock, nStarts,
            nReloads, nListens, printed>>

\* Connection(host, port, timeout); the Connection it replaces is dropped
\* and its __del__ closes it.
Connection_new ==
    /\ pc = "idle"
    /\ pending = "none"
    /\ \E a \in Ctors :
         /\ ctor' = a
         /\ attrs' = Connection_init(a)
    /\ servs' = <<>>
    /\ nOpenCalls' = 0
    /\ SetConn(close(Conn))
    /\ StreamGone
    /\ ret' = Ret("__init__", "none", <<>>, "none")
    /\ UNCHANGED <<pc, length, to_recv, body, short, consumed, sent>>
    /\ UNCHANGED <<apiVars, sessVars, lisOwn, exeVars, sideVars>>

\* open() on a Connection that is not connected; what it raises is on its
\* way to the ExceptionHandler.
OpenCall ==
    /\ CanOpen
    /\ pending = "none"
    /\ nOpenCalls < MaxOpenCalls
    /\ nOpenCalls' = nOpenCalls + 1
    /\ \E end \in AcceptEnds :
         /\ end = "accept" => Len(closeCalls) < MaxOpens
         /\ servs' = open_serv(servs, attrs, end)
         /\ SetConn(open_end(Conn, end))
         /\ pending' = IF end = "accept" THEN "none" ELSE end
         /\ ret' = Ret("open", IF end = "accept" THEN "none" ELSE end,
                       <<>>, "none")
         /\ IF end = "accept"
            THEN StreamGone
            ELSE UNCHANGED <<inbuf, peerClosed, inflight, sync>>
    /\ UNCHANGED <<pc, length, to_recv, body, short, consumed, sent>>
    /\ UNCHANGED <<apiVars, session, handled, lisOwn, exeVars, ctor, attrs,
                   sideVars>>

\* The listening socket of an open() that raised is no longer referenced
\* once the exception has been handled; collecting it closes it.
Collect ==
    /\ serv = "open"
    /\ pending = "none"
    /\ serv' = "closed"
    /\ UNCHANGED <<sock, isconned, closeCalls, inbuf, peerClosed, inflight,
                   sync, pc, length, to_recv, body, short, ret, consumed,
                   sent>>
    /\ UNCHANGED <<apiVars, ctlVars>>

NextOpen ==
    \/ Connection_new
    \/ OpenCall
    \/ Handle
    \/ Close
    \/ Collect
    \/ listen
    \/ AcceptTimeout

SpecOpen == Init /\ [][NextOpen]_vars

(***************************************************************************)
(* The breakpoint store and the session's use of it: add, toggle, remove,  *)
(* replay onto a new session (Api.breakpoint_set, dbgp.py 242-243;         *)
(* DebuggerInterface.set_breakpoint / remove_breakpoint,                   *)
(* debugger_interface.py 139-147).                                         *)
(***************************************************************************)
\* The members of a set of local ids, lowest first.
RECURSIVE Ascending(_)
Ascending(S) ==
    IF S = {} THEN <<>>
    ELSE LET lo == CHOOSE x \in S : \A y \in S : x <= y
         IN  <<lo>> \o Ascending(S \ {lo})

\* A breakpoint command issued to the engine: its name, the local record
\* it is for, the remote id (returned, for breakpoint_set; named, for the
\* others) and whether the local record existed when it was issued.
BpCmd(name, local, remote, present) ==
    [name |-> name, local |-> local, remote |-> remote, present |-> present]

EnabledIds(st) == {i \in DOMAIN st : st[i].enabled}

\* The id the engine of session sess returns for its k-th breakpoint_set,
\* NoRemote when it answers with an error instead.
Assigned(sess, k, ok) == IF ok THEN [sess |-> sess, n |-> k] ELSE NoRemote

\* The records replayed onto a new session: every enabled one.
\* Faulty variant: the disabled ones too.
replay_ids_all(st) == Ascending(DOMAIN st)

replay_ids(st) == Ascending(EnabledIds(st))

\* The commands of a replay onto session sess when the engine accepts the
\* breakpoints acc, and the store after it.
replay_sent(st, sess, acc) ==
    [k \in 1..Len(replay_ids(st)) |->
        BpCmd("breakpoint_set", replay_ids(st)[k],
              Assigned(sess, k, replay_ids(st)[k] \in acc), TRUE)]

replay_store(st, cmds) ==
    [i \in DOMAIN st |->
        IF \E k \in 1..Len(cmds) : cmds[k].local = i
        THEN Record(st[i].enabled,
                    cmds[CHOOSE k \in 1..Len(cmds) : cmds[k].local = i].remote)
        ELSE st[i]]

\* The command remove(id) issues: breakpoint_remove when a session is
\* active and the record has a remote id.
remove_sent(st, id, active) ==
    IF active /\ st[id].remote # NoRemote
    THEN <<BpCmd("breakpoint_remove", id, st[id].remote, id \in DOMAIN st)>>
    ELSE <<>>

\* The store after remove(id) whose command ended as ok says.
\* Faulty variant: the record stays when the engine's answer is an error.
remove_store_if_ok(st, id, ok) ==
    IF ok THEN [i \in DOMAIN st \ {id} |-> st[i]] ELSE st

remove_store(st, id, ok) == [i \in DOMAIN st \ {id} |-> st[i]]

\* What the store's operations leave alone.
bpRest == <<connVars, apiVars, pending, handled, lisOwn, exeVars, openVars,
            logVars, uiOpen, closes, offVars>>

\* add(breakpoint): the next local id; with an active session the
\* breakpoint is installed at once.
bp_add ==
    /\ nextId <= MaxBps
    /\ nextId' = nextId + 1
    /\ \E ok \in BOOLEAN :
         LET cmds == IF session = "active"
                     THEN <<BpCmd("breakpoint_set", nextId,
                                  Assigned(sessNo, nRemote + 1, ok), TRUE)>>
                     ELSE <<>>
         IN  /\ bpOp' = BpOp("add", nextId, cmds)
             /\ nRemote' = nRemote + Len(cmds)
             /\ store' = [i \in DOMAIN store \cup {nextId} |->
                            IF i # nextId THEN store[i]
                            ELSE Record(TRUE, IF cmds = <<>> THEN NoRemote
                                              ELSE cmds[1].remote)]
    /\ UNCHANGED <<removed, sessNo, session, bpRest>>

\* toggle(id): the flag changes; with an active session and a remote id
\* the engine is told.
bp_toggle ==
    /\ \E id \in DOMAIN store :
         /\ store' = [store EXCEPT ![id].enabled = ~@]
         /\ bpOp' = BpOp("toggle", id,
                         IF session = "active" /\ store[id].remote # NoRemote
                         THEN <<BpCmd("breakpoint_update", id,
                                      store[id].remote, TRUE)>>
                         ELSE <<>>)
    /\ UNCHANGED <<nextId, removed, sessNo, nRemote, session, bpRest>>

\* remove(id)
bp_remove ==
    /\ \E id \in DOMAIN store, ok \in BOOLEAN :
         /\ bpOp' = BpOp("remove", id,
                         remove_sent(store, id, session = "active"))
         /\ store' = remove_store(store, id, ok)
         /\ removed' = removed \cup {id}
    /\ UNCHANGED <<nextId, sessNo, nRemote, session, bpRest>>

\* A new session becomes active: the store is replayed onto its engine.
bp_session_start ==
    /\ session = "idle"
    /\ sessNo < MaxSessions
    /\ sessNo' = sessNo + 1
    /\ session' = "active"
    /\ \E acc \in SUBSET EnabledIds(store) :
         /\ bpOp' = BpOp("replay", 0, replay_sent(store, sessNo + 1, acc))
         /\ store' = replay_store(store, replay_sent(store, sessNo + 1, acc))
         /\ nRemote' = Len(replay_sent(store, sessNo + 1, acc))
    /\ UNCHANGED <<nextId, removed, bpRest>>

\* The session ends: the remote ids are discarded.
bp_session_end ==
    /\ session = "active"
    /\ session' = "idle"
    /\ store' = [i \in DOMAIN store |-> Record(store[i].enabled, NoRemote)]
    /\ nRemote' = 0
    /\ bpOp' = BpOp("end", 0, <<>>)
    /\ UNCHANGED <<nextId, removed, sessNo, bpRest>>

NextBreakpoints ==
    \/ bp_add
    \/ bp_toggle
    \/ bp_remove
    \/ bp_session_start
    \/ bp_session_end

SpecBreakpoints == Init /\ [][NextBreakpoints]_vars

(***************************************************************************)
(* Logger (vdebug.log, as exercised by tests/test_log.py 8-30).            *)
(***************************************************************************)
LogLevels == 0..3
LogTexts == {"dummy text", "other text", ""}

\* Logger.log(text, level) on a logger of level lvl: the calls of
\* self._actual_log it makes.
\* Faulty variant: a message at the logger's own level is dropped too.
Logger_log_below(lvl, text, level) ==
    IF level >= lvl THEN <<>> ELSE <<[text |-> text, level |-> level]>>

Logger_log(lvl, text, level) ==
    IF level > lvl THEN <<>> ELSE <<[text |-> text, level |-> level]>>

\* What the logger's operations leave alone.
logRest == <<connVars, apiVars, sessVars, lisOwn, exeVars, openVars, bpVars,
             uiOpen, closes, offVars>>

\* Logger(level)
Logger_new ==
    /\ \E lvl \in LogLevels : logLevel' = lvl
    /\ logged' = <<>>
    /\ logCall' = [text |-> "none", level |-> 0, n |-> 0]
    /\ UNCHANGED logRest

\* logger.log(text, level)
Logger_log_call ==
    /\ logCall.n < MaxLogs
    /\ \E text \in LogTexts, level \in LogLevels :
         /\ logCall' = [text |-> text, level |-> level, n |-> logCall.n + 1]
         /\ logged' = Logger_log(logLevel, text, level)
    /\ UNCHANGED <<logLevel, logRest>>

NextLog ==
    \/ Logger_new
    \/ Logger_log_call

SpecLog == Init /\ [][NextLog]_vars

(***************************************************************************)
(* WindowLogger (vdebug.log, as exercised by tests/test_log.py 46-91) on a *)
(* LogWindow (vimui.py 213-222, 250-257).                                  *)
(***************************************************************************)
\* Everything but the window and file loggers and the key mappings.
mainVars == <<connVars, apiVars, sessVars, lisOwn, exeVars, openVars, bpVars,
              logVars, uiOpen, closes>>

\* WindowLogger._actual_log(text, level) on a window that is open or not:
\* the window is created if it is not open, then written to.
\* Faulty variant: the window is created whether it is open or not.
WindowLogger_actual_log_recreates(open, entry) ==
    [open |-> TRUE, created |-> 1, wrote |-> <<entry>>]

WindowLogger_actual_log(open, entry) ==
    [open |-> TRUE, created |-> IF open THEN 0 ELSE 1, wrote |-> <<entry>>]

\* WindowLogger.log(text, level): Logger.log over _actual_log.
WindowLogger_log(lvl, open, text, level) ==
    IF Logger_log(lvl, text, level) = <<>>
    THEN [open |-> open, created |-> 0, wrote |-> <<>>]
    ELSE WindowLogger_actual_log(open, Logger_log(lvl, text, level)[1])

\* WindowLogger.shutdown(): self.window.is_open = False
WindowLogger_shutdown(open) == [open |-> FALSE, created |-> 0, wrote |-> <<>>]

winRest == <<mainVars, fileVars, keyVars>>

\* WindowLogger(level, window): the window is open or not, as the tests
\* set it and as the Ui has left it.
WindowLogger_new ==
    /\ \E lvl \in LogLevels : winLevel' = lvl
    /\ winOpen' \in BOOLEAN
    /\ winCall' = WinCall("none", "none", 0, winOpen',
                          [created |-> 0, wrote |-> <<>>], 0)
    /\ UNCHANGED winRest

\* logger.log(text, level)
WindowLogger_log_call ==
    /\ winCall.n < MaxLogs
    /\ \E text \in LogTexts, level \in LogLevels :
         /\ winCall' = WinCall("log", text, level, winOpen,
                               WindowLogger_log(winLevel, winOpen, text, level),
                               winCall.n + 1)
         /\ winOpen' = WindowLogger_log(winLevel, winOpen, text, level).open
    /\ UNCHANGED <<winLevel, winRest>>

\* logger.shutdown()
WindowLogger_shutdown_call ==
    /\ winCall.n < MaxLogs
    /\ winCall' = WinCall("shutdown", "none", 0, winOpen,
                          WindowLogger_shutdown(winOpen), winCall.n + 1)
    /\ winOpen' = WindowLogger_shutdown(winOpen).open
    /\ UNCHANGED <<winLevel, winRest>>

NextWindowLog ==
    \/ WindowLogger_new
    \/ WindowLogger_log_call
    \/ WindowLogger_shutdown_call

SpecWindowLog == Init /\ [][NextWindowLog]_vars

(***************************************************************************)
(* FileLogger (vdebug.log, as exercised by tests/test_log.py 94-135),      *)
(* installed by Environment.reload (util.py 318-326).  A logger is logged  *)
(* to and then shut down; after shutdown() a new one takes its place.      *)
(***************************************************************************)
\* FileLogger._actual_log(text, level) with self.f being f: the file is
\* opened for writing if there is no handle yet, then written and flushed.
\* Faulty variant: the file is opened at every log.
FileLogger_actual_log_reopens(f, entry) ==
    [f |-> "open", opened |-> 1, wrote |-> <<entry>>, flushed |-> 1,
     closed |-> 0]

FileLogger_actual_log(f, entry) ==
    [f |-> "open", opened |-> IF f = "None" THEN 1 ELSE 0,
     wrote |-> <<entry>>, flushed |-> 1, closed |-> 0]

\* FileLogger.log(text, level): Logger.log over _actual_log.
FileLogger_log(lvl, f, text, level) ==
    IF Logger_log(lvl, text, level) = <<>>
    THEN FileIdle(f)
    ELSE FileLogger_actual_log(f, Logger_log(lvl, text, level)[1])

\* FileLogger.shutdown(): the handle is closed if there is one.
FileLogger_shutdown(f) ==
    IF f = "None"
    THEN FileIdle(f)
    ELSE [f |-> "closed", opened |-> 0, wrote |-> <<>>, flushed |-> 0,
          closed |-> 1]

fileRest == <<mainVars, winVars, keyVars>>

\* Environment.reload: Log.set_logger(FileLogger(level, filename))
FileLogger_new ==
    /\ \E lvl \in LogLevels : fileLevel' = lvl
    /\ fileHandle' = "None"
    /\ fileOpens' = 0
    /\ fileCall' = FileCall("none", "none", 0, "None", FileIdle("None"), 0)
    /\ UNCHANGED fileRest

\* logger.log(text, level)
FileLogger_log_call ==
    /\ fileCall.n < MaxLogs
    /\ fileCall.op # "shutdown"
    /\ \E text \in LogTexts, level \in LogLevels :
         /\ fileCall' = FileCall("log", text, level, fileHandle,
                                 FileLogger_log(fileLevel, fileHandle, text,
                                                level),
                                 fileCall.n + 1)
         /\ fileHandle' = FileLogger_log(fileLevel, fileHandle, text, level).f
         /\ fileOpens' = fileOpens
               + FileLogger_log(fileLevel, fileHandle, text, level).opened
    /\ UNCHANGED <<fileLevel, fileRest>>

\* logger.shutdown()
FileLogger_shutdown_call ==
    /\ fileCall.op # "shutdown"
    /\ fileCall' = FileCall("shutdown", "none", 0, fileHandle,
                            FileLogger_shutdown(fileHandle), fileCall.n + 1)
    /\ fileHandle' = FileLogger_shutdown(fileHandle).f
    /\ UNCHANGED <<fileLevel, fileOpens, fileRest>>

NextFileLog ==
    \/ FileLogger_new
    \/ FileLogger_log_call
    \/ FileLogger_shutdown_call

SpecFileLog == Init /\ [][NextFileLog]_vars

(***************************************************************************)
(* Keymapper (util.py 114-187).  A value k is the Keymapper, a value v     *)
(* Vim's mappings.                                                         *)
(***************************************************************************)
\* exclude = ["run", "close", "set_breakpoint", "eval_visual"]
exclude == {"run", "close", "set_breakpoint", "eval_visual"}

\* The commands of a keymap that get a mapping.
Mapped(keymaps) == DOMAIN keymaps \ exclude

\* _store_old_map: keys, the keys of self.keymaps that are not excluded.
keys_of(keymaps) == { keymaps[f] : f \in Mapped(keymaps) }

\* _store_old_map: the lines of mkexrc whose first word after the map
\* command is one of keys, that is whose {lhs} is such a key with nothing
\* before it; they are appended to self.existing.
RECURSIVE lines_of(_, _)
lines_of(v, L) ==
    IF L = {} THEN <<>>
    ELSE LET lhs == CHOOSE x \in L : TRUE
         IN  <<MapLine(lhs, v[lhs])>> \o lines_of(v, L \ {lhs})

store_old_map(k, v) ==
    [k EXCEPT !.existing =
        @ \o lines_of(v, { lhs \in AllLhs : /\ v[lhs] # "none"
                                             /\ lhs[1] = ""
                                             /\ lhs[2] \in keys_of(k.keymaps) })]

\* _reload_keys
reload_keys(k, keymap, leader) ==
    [k EXCEPT !.keymaps = keymap, !.leader = leader]

\* for func in self.keymaps: noremap {leader}{key} :python debugger.func()
noremap_all(k, v) ==
    [lhs \in AllLhs |->
        IF \E f \in Mapped(k.keymaps) : lhs = Lhs(k.leader, k.keymaps[f])
        THEN "debugger" ELSE v[lhs]]

\* Keymapper.map (util.py 131-142)
Keymapper_map(k, v, keymap, leader) ==
    IF k.is_mapped
    THEN [k |-> k, v |-> v]
    ELSE [k |-> [reload_keys(store_old_map(k, v), keymap, leader)
                    EXCEPT !.is_mapped = TRUE],
          v |-> noremap_all(reload_keys(k, keymap, leader), v)]

\* Keymapper.reload (util.py 144-147)
Keymapper_reload(k, v, keymap, leader) ==
    Keymapper_map([reload_keys(k, keymap, leader) EXCEPT !.is_mapped = FALSE],
                  v, keymap, leader)

\* unmap: for func in self.keymaps: unmap {leader}{key}
unmap_all(k, v) ==
    [lhs \in AllLhs |->
        IF \E f \in Mapped(k.keymaps) : lhs = Lhs(k.leader, k.keymaps[f])
        THEN "none" ELSE v[lhs]]

\* unmap: for mapping in self.existing: vim.command(mapping)
RECURSIVE run_lines(_, _)
run_lines(v, lines) ==
    IF lines = <<>> THEN v
    ELSE run_lines([v EXCEPT ![Head(lines).lhs] = Head(lines).rhs],
                   Tail(lines))

\* Keymapper.unmap (util.py 175-187)
Keymapper_unmap(k, v) ==
    IF k.is_mapped
    THEN [k |-> [k EXCEPT !.is_mapped = FALSE],
          v |-> run_lines(unmap_all(k, v), k.existing),
          ran |-> k.existing]
    ELSE [k |-> k, v |-> v, ran |-> <<>>]

keyRest == <<mainVars, winVars, fileVars>>

\* The user maps a key before the debugger has mapped any.
user_map ==
    /\ keyCall.n = 0
    /\ \E lhs \in AllLhs :
         /\ vimMaps[lhs] = "none"
         /\ vimMaps' = [vimMaps EXCEPT ![lhs] = "user"]
         /\ userMaps' = [vimMaps EXCEPT ![lhs] = "user"]
    /\ UNCHANGED <<g_keymap, g_leader, keymapper, keyCall, keyRest>>

\* The user sets g:vdebug_keymap and g:vdebug_leader_key.
user_let ==
    /\ \E keymap \in Keymaps, leader \in Leaders :
         /\ g_keymap' = keymap
         /\ g_leader' = leader
    /\ UNCHANGED <<vimMaps, userMaps, keymapper, keyCall, keyRest>>

key_map ==
    /\ keyCall.n < MaxKeyOps
    /\ keymapper' = Keymapper_map(keymapper, vimMaps, g_keymap, g_leader).k
    /\ vimMaps' = Keymapper_map(keymapper, vimMaps, g_keymap, g_leader).v
    /\ keyCall' = KeyCall("map", keymapper.is_mapped, <<>>, keyCall.n + 1)
    /\ UNCHANGED <<userMaps, g_keymap, g_leader, keyRest>>

key_reload ==
    /\ keyCall.n < MaxKeyOps
    /\ keymapper' = Keymapper_reload(keymapper, vimMaps, g_keymap, g_leader).k
    /\ vimMaps' = Keymapper_reload(keymapper, vimMaps, g_keymap, g_leader).v
    /\ keyCall' = KeyCall("reload", keymapper.is_mapped, <<>>, keyCall.n + 1)
    /\ UNCHANGED <<userMaps, g_keymap, g_leader, keyRest>>

key_unmap ==
    /\ keyCall.n < MaxKeyOps
    /\ keymapper' = Keymapper_unmap(keymapper, vimMaps).k
    /\ vimMaps' = Keymapper_unmap(keymapper, vimMaps).v
    /\ keyCall' = KeyCall("unmap", keymapper.is_mapped,
                          Keymapper_unmap(keymapper, vimMaps).ran,
                          keyCall.n + 1)
    /\ UNCHANGED <<userMaps, g_keymap, g_leader, keyRest>>

NextKeys ==
    \/ user_map
    \/ user_let
    \/ key_map
    \/ key_reload
    \/ key_unmap

SpecKeys == Init /\ [][NextKeys]_vars

(***************************************************************************)
(* Properties of the Api.                                                  *)
(***************************************************************************)
\* The transaction id a command carries on the wire: the digits that follow
\* the first ' -i '.
MarkerAt(b, j) ==
    /\ j + 3 <= Len(b)
    /\ b[j] = " " /\ b[j + 1] = "-" /\ b[j + 2] = "i" /\ b[j + 3] = " "

HasMarker(b) == \E j \in 1..Len(b) : MarkerAt(b, j)

IdStart(b) ==
    4 + CHOOSE j \in 1..Len(b) :
            MarkerAt(b, j) /\ \A k \in 1..(j - 1) : ~MarkerAt(b, k)

RECURSIVE DigitsFrom(_, _)
DigitsFrom(b, j) ==
    IF j <= Len(b) /\ isdigit(b[j]) THEN <<b[j]>> \o DigitsFrom(b, j + 1)
    ELSE <<>>

IdOnWire(b) == int(DigitsFrom(b, IdStart(b)))

\* C8: the commands one Api instance has written carry the transaction ids
\* 1, 2, ..., N in order, without repeat or gap, whatever the commands and
\* whether the calls returned a response or raised a protocol error.
C8_TransIdsOnWire ==
    \A i \in 1..Len(wire) :
        /\ HasMarker(wire[i].bytes)
        /\ DigitsFrom(wire[i].bytes, IdStart(wire[i].bytes)) # <<>>
        /\ IdOnWire(wire[i].bytes) = i

\* Three commands written, the last one answered by a protocol error.
C8_Witness ==
    /\ Len(wire) = 3
    /\ apiRet = ApiRet("send_cmd", "DBGPError", "none")
    /\ IdOnWire(wire[3].bytes) = 3

\* C9: nothing is carried over between Api instances: the class attributes
\* stay conn = None and transID = 0, a new instance starts without a
\* transaction id of its own and its first command carries id 1, and its
\* language, idekey and start file are those of its own init message.
C9_NothingCarriedOver ==
    /\ apiClass = [conn |-> NoneAttr, transID |-> 0]
    /\ (apiLive /\ apiRet.op = "__init__")
           => ("transID" \notin DOMAIN api /\ wire = <<>>)
    /\ apiLive =>
           /\ api["language"] = initMsg.language
           /\ api["idekey"] = initMsg.idekey
           /\ api["startfile"] = initMsg.fileuri
    /\ wire # <<>> => IdOnWire(wire[1].bytes) = 1

\* The second instance, built after the first had written commands, has
\* written its first command.
C9_Witness ==
    /\ nApis = 2
    /\ prevWrote
    /\ apiLive
    /\ Len(wire) = 1
    /\ IdOnWire(wire[1].bytes) = 1
    /\ api["language"] = "python"

\* C10: the text send_cmd(name, args) passes on is the name without its
\* surrounding whitespace, ' -i ', the new transaction id and, only when the
\* arguments are not empty once stripped, a space and the stripped
\* arguments; with empty arguments the text ends with the id.
C10_CommandText ==
    \A i \in 1..Len(wire) :
        LET e == wire[i] IN
        /\ e.text = e.name \o <<" ", "-", "i", " ">> \o str(i)
                       \o (IF e.args = <<>> THEN <<>> ELSE <<" ">> \o e.args)
        /\ e.args = <<>> => e.text[Len(e.text)] = DigitChar(i)

\* A padded name with whitespace-only arguments, then one with arguments.
C10_Witness ==
    /\ Len(wire) = 2
    /\ wire[1].name = <<"s", "t", "a", "t", "u", "s">>
    /\ wire[1].args = <<>>
    /\ wire[1].text = <<"s", "t", "a", "t", "u", "s", " ", "-", "i", " ", "1">>
    /\ wire[2].text = <<"r", "u", "n", " ", "-", "i", " ", "2", " ",
                        "-", "n", " ", "x">>

\* The calls of the handshake at the head of the history t, and among the
\* first k calls of t the commands written and the recv_msg calls made for
\* them.
InitLen(t) == IF t # <<>> /\ t[1].op = "open" THEN 2 ELSE 1

Written(t, k) ==
    Cardinality({i \in 1..k : t[i].op = "send_msg" /\ t[i].io})

Received(t, k) ==
    Cardinality({i \in (InitLen(t) + 1)..k : t[i].op = "recv_msg"})

Outstanding(t, k) == Written(t, k) - Received(t, k)

\* C11: one transaction is outstanding at a time: in the calls an Api has
\* made on its Connection every command written is followed at once by one
\* recv_msg and every recv_msg after the handshake follows a command
\* written, so at each point of the history the commands written exceed
\* the recv_msg calls made for them by 0 or 1; the difference is 0 once
\* send_cmd has returned a response or raised a protocol error.
C11_OneOutstanding ==
    apiLive =>
        /\ \A k \in 0..Len(calls) : Outstanding(calls, k) \in {0, 1}
        /\ \A i \in 1..Len(calls) :
               (calls[i].op = "send_msg" /\ calls[i].io)
                   => (i < Len(calls) /\ calls[i + 1].op = "recv_msg")
        /\ \A i \in (InitLen(calls) + 1)..Len(calls) :
               calls[i].op = "recv_msg" => calls[i - 1] = Call("send_msg", TRUE)
        /\ Written(calls, Len(calls)) = Len(wire)
        /\ (apiRet.op = "send_cmd" /\ apiRet.exc \in {"none", "DBGPError"})
               => /\ Outstanding(calls, Len(calls)) = 0
                  /\ calls[Len(calls)].op = "recv_msg"

\* Three commands written and answered, the last by a protocol error.
C11_Witness ==
    /\ apiLive
    /\ Written(calls, Len(calls)) = 3
    /\ Received(calls, Len(calls)) = 3
    /\ Outstanding(calls, Len(calls) - 1) = 1
    /\ apiRet = ApiRet("send_cmd", "DBGPError", "none")

\* C12: the handshake precedes every command: the constructor calls open()
\* exactly when the Connection is not connected, then recv_msg() once, and
\* returns with the attributes of the message it received, nothing written
\* and no transaction id taken; whatever is written later follows that
\* recv_msg, and the first command carries the id 1.
C12_HandshakeFirst ==
    [][ /\ nApis' # nApis =>
            /\ (isconned = 0) <=> (Head(calls').op = "open")
            /\ apiLive' =>
                   /\ calls' = (IF isconned = 0 THEN <<Call("open", TRUE)>>
                                ELSE <<>>) \o <<Call("recv_msg", TRUE)>>
                   /\ initMsg' \in InitMsgs
                   /\ api'["language"] = initMsg'.language
                   /\ api'["startfile"] = initMsg'.fileuri
                   /\ wire' = <<>>
                   /\ "transID" \notin DOMAIN api'
                   /\ getattr(api', apiClass', "transID") = 0
        /\ wire' # <<>> =>
            /\ apiLive'
            /\ initMsg' \in InitMsgs
            /\ \E j \in 1..Len(calls') :
                   /\ calls'[j].op = "recv_msg"
                   /\ \A i \in 1..j : calls'[i].op # "send_msg"
            /\ IdOnWire(wire'[1].bytes) = 1
      ]_vars

\* An Api built over a Connection that was already connected has received
\* its init message without opening and has then written its first command.
C12_Witness ==
    /\ nApis = 2
    /\ apiLive
    /\ calls = <<Call("recv_msg", TRUE), Call("send_msg", TRUE),
                  Call("recv_msg", TRUE)>>
    /\ Len(wire) = 1

(***************************************************************************)
(* Properties of the Response constructor.                                 *)
(***************************************************************************)
Built == resp.cls # "none"

WrongIdekey ==
    /\ apiRet.op = "__init__"
    /\ handshake.msg.wellformed
    /\ handshake.exp_idekey # NoneAttr
    /\ handshake.msg.idekey # handshake.exp_idekey

\* The Connection is connected and nobody has closed its socket.
ConnLeftOpen ==
    /\ sock # None
    /\ isconned = 1
    /\ closeCalls[sock] = 0

\* C15, as stated: whenever an expected idekey was supplied and the init
\* message announces another, construction fails with WrongIDEKeyException
\* and the Connection stays open.
C15_WrongIdekeyRaises ==
    WrongIdekey =>
        /\ apiRet.exc = "WrongIDEKeyException"
        /\ ~apiLive
        /\ ConnLeftOpen

\* C15, amended: that holds when the init message carries a language; a
\* message without one fails with ResponseError before the idekey is
\* compared.  In both cases the Connection is connected with its socket
\* open, and unchanged if it was connected before.  With no expected
\* idekey every announced idekey is accepted.
C15_WrongIdekeyRaisesAfterLanguage ==
    [][ nApis' # nApis =>
          /\ WrongIdekey' =>
                /\ apiRet'.exc = IF handshake'.msg.language = NoneAttr
                                 THEN "ResponseError"
                                 ELSE "WrongIDEKeyException"
                /\ ~apiLive'
                /\ ConnLeftOpen'
                /\ isconned = 1 => Conn' = Conn
          /\ (/\ handshake'.msg.wellformed
              /\ handshake'.msg.language # NoneAttr
              /\ handshake'.exp_idekey = NoneAttr)
                 => /\ apiRet'.exc = "none"
                    /\ apiLive'
                    /\ api'["idekey"] = handshake'.msg.idekey
      ]_vars

\* An Api expecting k1, built over a Connection that an earlier Api had
\* opened, met the idekey k2.
C15_Witness ==
    /\ nApis = 2
    /\ WrongIdekey
    /\ handshake.msg.language = "python"
    /\ apiRet.exc = "WrongIDEKeyException"
    /\ calls = <<Call("recv_msg", TRUE)>>
    /\ ConnLeftOpen

(***************************************************************************)
(* Properties of the ExceptionHandler and the session.                     *)
(***************************************************************************)
\* C16: a protocol error does not end the session.  When send_cmd has
\* raised DBGPError the session is active and the Connection connected
\* with its socket open; handle() reports it with one ui().error, calls
\* stop() not at all and changes neither the session nor the Connection;
\* and the command written next carries the next transaction id.
C16_ProtocolErrorKeepsSession ==
    [][ /\ (pending' = "DBGPError" /\ pending = "none") =>
              /\ session' = "active"
              /\ apiLive'
              /\ ConnLeftOpen'
              /\ Conn' = Conn
        /\ (pending = "DBGPError" /\ pending' = "none") =>
              /\ handled'.e = "DBGPError"
              /\ Len(handled'.ui) = 1
              /\ handled'.ui[1].call = "error"
              /\ handled'.stops = 0
              /\ handled'.raised = "none"
              /\ session' = "active"
              /\ apiLive'
              /\ Conn' = Conn
              /\ ConnLeftOpen'
        /\ (/\ apiRet = ApiRet("send_cmd", "DBGPError", "none")
            /\ Len(wire') = Len(wire) + 1) =>
              /\ pending = "none"
              /\ IdOnWire(wire'[Len(wire')].bytes)
                    = IdOnWire(wire[Len(wire)].bytes) + 1
      ]_vars

\* After a protocol error was handled the next command was written with the
\* id 2 and answered.
C16_Witness ==
    /\ handled.e = "DBGPError"
    /\ Len(handled.ui) = 1
    /\ session = "active"
    /\ Len(wire) = 2
    /\ IdOnWire(wire[2].bytes) = 2
    /\ apiRet = ApiRet("send_cmd", "none", "StatusResponse")

\* What the transport raises: a timeout, the end of the stream or a socket
\* error, a malformed frame (ValueError from the length prefix) or a
\* malformed response (XML that does not parse, an error without code).
TransportFailures ==
    {"TimeoutError", "EOFError", "error", "ValueError", "ParseError",
     "ResponseError"}

\* C17: a transport-level failure in an active session ends, once handled
\* (and unless the stop() called for it fails), with the session idle and
\* the Connection closed.
C17_TransportFailureStops ==
    [][ (/\ session = "active"
         /\ pending \in TransportFailures
         /\ pending' = "none"
         /\ handled'.stops > 0 => handled'.stopped)
            => /\ session' = "idle"
               /\ sock' = None
               /\ isconned' = 0
      ]_vars

\* C18: for every exception handle() was given it has made at least one
\* ui().say or ui().error call, also when stop() failed.
C18_EveryErrorSurfaced ==
    handled.e # "none" =>
        \E i \in 1..Len(handled.ui) : handled.ui[i].call \in {"say", "error"}

(***************************************************************************)
(* Properties of the Listener and of listen().                             *)
(***************************************************************************)
\* C19: a listen() while the listener is listening (its accept loop alive,
\* no socket pending) only prints that it is already waiting: no accept
\* loop is started, the environment is not reloaded, no session is started
\* and nothing of the listener, the session or the connection changes.
C19_SecondListenIsNoOp ==
    [][ (nListens' # nListens /\ is_listening(Lis)) =>
          /\ printed' = "Already waiting for a connection: none found so far"
          /\ UNCHANGED <<thread, pendingSock, nAccepted, handed, sessSock,
                         nStarts, nReloads>>
          /\ UNCHANGED <<sessVars, connVars, apiVars>>
      ]_vars

\* A second listen() found the listener of the first still listening.
C19_Witness ==
    /\ nListens = 2
    /\ printed = "Already waiting for a connection: none found so far"
    /\ is_listening(Lis)
    /\ nStarts = 1
    /\ nReloads = 1
    /\ session = "idle"

\* C20: the handover is a single take.  create_connection hands out the
\* one pending socket, to the one session that is started with it, and
\* leaves the listener neither ready nor listening with its accept loop
\* stopped, so that no peer is accepted until a later listen() starts the
\* server again; no socket is handed out twice, and the socket the session
\* owns is never the one the server holds.
C20_SingleTake ==
    [][ /\ Len(handed') # Len(handed) =>
              /\ is_ready(Lis)
              /\ handed' = Append(handed, pendingSock)
              /\ sessSock' = pendingSock
              /\ session' = "active"
              /\ ~is_ready(Lis')
              /\ ~is_listening(Lis')
              /\ ~thread'
        /\ nAccepted' # nAccepted => (thread /\ pendingSock = None)
        /\ \A i, j \in 1..Len(handed') :
              /\ handed'[i] # None
              /\ i # j => handed'[i] # handed'[j]
        /\ sessSock' # None => sessSock' # pendingSock'
      ]_vars

\* Two handovers, each of its own socket; the second session owns the
\* second socket and the listener is stopped.
C20_Witness ==
    /\ handed = <<1, 2>>
    /\ sessSock = 2
    /\ session = "active"
    /\ ~is_ready(Lis)
    /\ ~is_listening(Lis)


(***************************************************************************)
(* Properties of the execution commands.                                   *)
(***************************************************************************)
\* Some execution command is issued in this step.
ExecIssued == nExec' # nExec

\* C21: while no session is connected (idle or listening) every execution
\* command is turned down: nothing is carried out on a connection, no accept
\* loop is started, and the listener and the session stay as they were.
C21_CommandsRejectedUnconnected ==
    [][ExecIssued /\ ~is_connected
          => /\ nDispatched' = nDispatched
             /\ nStarts' = nStarts
             /\ Lis' = Lis
             /\ session' = session
             /\ sessSock' = sessSock]_vars

(***************************************************************************)
(* Properties of the accept wait.                                          *)
(***************************************************************************)
\* An open() is called in this step, and the socket it listened on.
OpenCalled == nOpenCalls' = nOpenCalls + 1
LastServ(ss) == ss[Len(ss)]

\* C22: an accept wait that times out raises the timeout and leaves nothing
\* listening or connected, and every later open() / listen() waits afresh:
\* open() on a new listening socket with the Connection's whole timeout,
\* listen() by starting a new accept loop; so after any number of timeouts.
C22_TimeoutThenFreshWait ==
    [][/\ OpenCalled =>
            /\ Len(servs') = Len(servs) + 1
            /\ LastServ(servs').timeout = attrs.timeout
            /\ LastServ(servs').end = "TimeoutError" =>
                  /\ ret' = Ret("open", "TimeoutError", <<>>, "none")
                  /\ pending' = "TimeoutError"
                  /\ isconned' = 0
                  /\ sock' = None
                  /\ serv' = "closed"
       /\ (thread /\ ~thread') => ~is_listening(Lis')
       /\ (nListens' = nListens + 1 /\ ~thread /\ pendingSock = None) =>
            /\ nStarts' = nStarts + 1
            /\ is_listening(Lis')]_vars

\* Two open() calls in a row have timed out, and a second accept loop runs
\* after the first gave up.
C22_Witness ==
    /\ Len(servs) >= 2
    /\ servs[1].end = "TimeoutError"
    /\ servs[2].end = "TimeoutError"
    /\ ret = Ret("open", "TimeoutError", <<>>, "none")
    /\ nStarts >= 2
    /\ thread

\* C23: once an accept wait that ended with the user's interrupt or with any
\* failure other than a timeout has been handled, no listening socket is
\* left open, the Connection is not connected and the session is idle.
C23_InterruptedWaitLeavesNothing ==
    (/\ ret.op = "open"
     /\ ret.exc \notin {"none", "TimeoutError"}
     /\ pending = "none"
     /\ handled.e = ret.exc)
        => /\ serv # "open"
           /\ isconned = 0
           /\ sock = None
           /\ session = "idle"

\* C26: every socket open() listens on is bound to the host and the port
\* the Connection was constructed with, and waits for the timeout it was
\* constructed with.
C26_OpenUsesCtorArgs ==
    \A i \in 1..Len(servs) :
        /\ servs[i].host = ctor.host
        /\ servs[i].port = ctor.port
        /\ servs[i].timeout = ctor.timeout

(***************************************************************************)
(* Properties of the typed responses.                                      *)
(***************************************************************************)
\* The methods whose response is a status.
StatusMethods ==
    {"status", "run", "step_into", "step_over", "step_out", "stop", "detach"}

\* The method returned a response object.
Returned_response == out.method # "none" /\ out.exc = "none"

\* C24: the string form of the response status, run, step_into, step_over,
\* step_out, stop and detach return is the status attribute the engine
\* reported; the first command status() sends is "status -i 1".
C24_StatusString ==
    (Returned_response /\ out.method \in StatusMethods) =>
        /\ (out.reply.wellformed /\ out.reply.status # NoneAttr)
               => out.str = Val(out.reply.status)
        /\ (out.method = "status" /\ out.id = 1)
               => out.sent = <<"s", "t", "a", "t", "u", "s", " ", "-", "i", " ", "1">>

\* status() as the first command, answered with status="starting".
C24_Witness ==
    /\ Returned_response
    /\ out.method = "status"
    /\ out.sent = <<"s", "t", "a", "t", "u", "s", " ", "-", "i", " ", "1">>
    /\ out.reply.status = "starting"
    /\ out.str = Val("starting")

\* The attribute value is a numeral other than zero.
NonZero(x) == \E i \in 1..Len(x) : x[i] # "0"

\* C25: for the response feature_get returns, whose supported attribute is
\* a number, is_supported() is true exactly when that number is not zero,
\* and the string form is the text of the response when it is supported
\* and the fixed text otherwise.
C25_FeatureSupported ==
    (/\ Returned_response
     /\ out.method = "feature_get"
     /\ out.reply.wellformed
     /\ IsNumeral(out.reply.supported)) =>
        /\ out.cls = "FeatureGetResponse"
        /\ out.supported.exc = "none"
        /\ (out.supported.val # 0) <=> NonZero(out.reply.supported)
        /\ (NonZero(out.reply.supported) /\ out.reply.text # NoneAttr)
               => out.str = Val(out.reply.text)
        /\ ~NonZero(out.reply.supported)
               => out.str = Val("* Feature not supported *")

\* feature_get('encoding') as the second command, written as
\* "feature_get -i 2 -n encoding" and answered with supported="1" and the
\* text utf-8.
C25_Witness ==
    /\ Returned_response
    /\ out.method = "feature_get"
    /\ out.sent = 
        <<"f", "e", "a", "t", "u", "r", "e", "_", "g", "e", "t", " ", "-", "i", " ", "2", " ", "-", "n", " ", "e", "n", "c", "o", "d", "i", "n", "g">>
    /\ out.reply.supported = <<"1">>
    /\ out.supported.exc = "none"
    /\ out.supported.val = 1
    /\ out.str = Val("utf-8")

(***************************************************************************)
(* Properties of detach() and stop().                                      *)
(***************************************************************************)
\* C27: detach() and stop() on an active session always leave the session
\* idle and its Connection closed (not connected, no socket held, the socket
\* it held closed), whatever the engine answers and also when the command
\* fails.
C27_EndAlwaysIdleClosed ==
    [][nEnds' # nEnds =>
          /\ session' = "idle"
          /\ isconned' = 0
          /\ sock' = None
          /\ sock # None => closeCalls'[sock] > closeCalls[sock]]_vars

\* A detach whose command the engine answered with an error has ended the
\* session.
C27_Witness ==
    /\ nEnds > 0
    /\ wire # <<>>
    /\ wire[Len(wire)].name = <<"d", "e", "t", "a", "c", "h">>
    /\ apiRet = ApiRet("send_cmd", "DBGPError", "none")
    /\ session = "idle"
    /\ isconned = 0
    /\ sock = None

(***************************************************************************)
(* Properties of the breakpoint store.                                     *)
(***************************************************************************)
\* A replay onto a new session happens in this step.
Replayed == sessNo' = sessNo + 1

\* C28: when a session becomes active with M enabled records in the store,
\* exactly M breakpoint_set commands are issued, one for each enabled record
\* and none for a disabled one; afterwards each replayed record holds what
\* this session's engine returned for it, and while a session is active no
\* record holds a remote id of an earlier session.
C28_ReplayExactlyEnabled ==
    [][/\ Replayed =>
            /\ Len(bpOp'.sent) = Cardinality(EnabledIds(store))
            /\ \A i \in EnabledIds(store) :
                 \E k \in 1..Len(bpOp'.sent) :
                    /\ bpOp'.sent[k].name = "breakpoint_set"
                    /\ bpOp'.sent[k].local = i
                    /\ store'[i].remote = bpOp'.sent[k].remote
                    /\ bpOp'.sent[k].remote \in {NoRemote}
                           \cup {[sess |-> sessNo', n |-> k]}
       /\ session' = "active" =>
            \A i \in DOMAIN store' :
               store'[i].remote # NoRemote => store'[i].remote.sess = sessNo']_vars

\* The second session has become active over a store with an enabled and a
\* disabled record; the enabled one holds an id of the second session.
C28_Witness ==
    /\ sessNo = 2
    /\ session = "active"
    /\ bpOp.op = "replay"
    /\ Len(bpOp.sent) >= 1
    /\ \E i \in DOMAIN store : ~store[i].enabled
    /\ \E i \in DOMAIN store : store[i].enabled /\ store[i].remote.sess = 2

\* A record is removed in this step.
Removed == removed' # removed

\* C29: remove(id) always deletes the local record; with an active session
\* and a remote id on the record, breakpoint_remove for that remote id is
\* issued while the record still exists; without an active session nothing
\* is sent.  A local id, once removed, is never assigned again.
C29_RemoveAlwaysDeletes ==
    [][/\ Removed =>
            /\ bpOp'.op = "remove"
            /\ bpOp'.id \in DOMAIN store
            /\ bpOp'.id \notin DOMAIN store'
            /\ (session = "active" /\ store[bpOp'.id].remote # NoRemote) =>
                  bpOp'.sent = <<BpCmd("breakpoint_remove", bpOp'.id,
                                       store[bpOp'.id].remote, TRUE)>>
            /\ session # "active" => bpOp'.sent = <<>>
       /\ \A i \in DOMAIN store' \ DOMAIN store : i \notin removed']_vars

\* A record with a remote id has been removed from an active session, and
\* a record was added after an earlier removal.
C29_Witness ==
    /\ bpOp.op = "remove"
    /\ bpOp.sent # <<>>
    /\ bpOp.id \notin DOMAIN store
    /\ session = "active"
    /\ \E i \in DOMAIN store : \E j \in removed : j < i

(***************************************************************************)
(* Properties of the Logger.                                               *)
(***************************************************************************)
\* C30: log(text, level) hands the message to the actual log exactly once,
\* with that text and level, when level is at most the logger's level, and
\* not at all when level is greater.
C30_LogAtOrBelowLevel ==
    logCall.n > 0 =>
        /\ logCall.level <= logLevel =>
              logged = <<[text |-> logCall.text, level |-> logCall.level]>>
        /\ logCall.level > logLevel => logged = <<>>

\* The second log() of a logger was at the logger's own level and reached
\* the actual log.
C30_Witness ==
    /\ logCall.n >= 2
    /\ logCall.level = logLevel
    /\ logCall.text = "dummy text"
    /\ Len(logged) = 1


(***************************************************************************)
(* Properties of the length prefix.                                        *)
(***************************************************************************)
\* The bytes of a message before its first NUL.
HasNul(b) == \E i \in 1..Len(b) : b[i] = NUL
LengthPrefix(b) == SubSeq(b, 1, FirstNul(b) - 1)

\* A str of decimal digits, at least one.
DigitsOnly(s) == s # <<>> /\ \A i \in 1..Len(s) : isdigit(s[i])

\* A recv_msg has finished on a message it began at the first byte of, and
\* the message has a NUL to end its length prefix.
RecvdPrefixed ==
    /\ RecvEnded
    /\ consumed.msg.kind # "none"
    /\ HasNul(consumed.msg.bytes)

\* C35: the length recv_msg uses is the decimal value of the digits before
\* the first NUL, and the prefix must be digits only: a recv_msg of a
\* message whose prefix has a byte that is no digit, or has no digit at
\* all, raises and leaves the Connection closed instead of returning a
\* payload.
C35_PrefixDigitsOnly ==
    RecvdPrefixed =>
        IF DigitsOnly(LengthPrefix(consumed.msg.bytes))
        THEN ret.exc = "none" =>
                 Len(ret.val) = int(LengthPrefix(consumed.msg.bytes))
        ELSE /\ ret.exc # "none"
             /\ sock = None
             /\ isconned = 0


(***************************************************************************)
(* Properties of starting a session.                                       *)
(***************************************************************************)
\* C33: a session is only ever started when none is connected: among the
\* DebuggerInterface operations and the peers that connect, no step hands
\* a socket to session.start(connection) while session.is_connected() is
\* true, so that the socket of a live session is never replaced.
C33_StartOnlyWhenUnconnected ==
    [][ Len(handed') # Len(handed) =>
            /\ ~is_connected
            /\ sessSock = None
      ]_vars


(***************************************************************************)
(* Properties of DebuggerInterface.close.                                  *)
(***************************************************************************)
\* Not connected, UI closed, listener stopped.
FullyIdle(d) ==
    /\ ~d.connected
    /\ ~d.open
    /\ ~d.lis.thread
    /\ d.lis.pendingSock = None

\* C34: close() tears down one layer per call and nothing else: of a
\* connected session only the connection (the UI stays as it is and the
\* listener is untouched), else of a session with its UI open only the
\* session, else only the listener, which is stopped.  So three close()
\* calls in a row from any state reach the fully idle state, and a close()
\* in the fully idle state changes nothing.
C34_CloseOneLayer ==
    /\ [](/\ FullyIdle(DebuggerInterface_close(DebuggerInterface_close(
                           DebuggerInterface_close(DI))))
          /\ FullyIdle(DI) => DebuggerInterface_close(DI) = DI)
    /\ [][ Len(closes') # Len(closes) =>
             /\ session = "active" =>
                   /\ session' = "idle"
                   /\ sessSock' = None
                   /\ UNCHANGED <<uiOpen, thread, pendingSock>>
             /\ (session # "active" /\ uiOpen) =>
                   /\ ~uiOpen'
                   /\ UNCHANGED <<session, sessSock, thread, pendingSock>>
             /\ (session # "active" /\ ~uiOpen) =>
                   /\ ~thread'
                   /\ pendingSock' = None
                   /\ UNCHANGED <<session, sessSock, uiOpen>>
             /\ UNCHANGED <<connVars, apiVars, pending, handled, nAccepted,
                            handed, nStarts, nReloads, nListens, printed>>
         ]_vars

\* Three close() calls in a row on a connected session whose listener had
\* been started again took down the connection, then the session, then the
\* listener, and left everything idle.
C34_Witness ==
    /\ closes = <<"connection", "session", "listener">>
    /\ FullyIdle(DI)
    /\ nStarts = 2
    /\ Len(handed) = 1


(***************************************************************************)
(* Properties of the WindowLogger.                                         *)
(***************************************************************************)
\* C31: a log() at a level up to the logger's writes exactly once to the
\* window, the text it was given, and creates the window first if and
\* only if it was not open; a log() at a higher level neither creates the
\* window nor writes; log() returns nothing; after shutdown() the window
\* is marked not open.
C31_WindowLog ==
    /\ winCall.op = "log" =>
          /\ winCall.ret = "None"
          /\ winCall.level <= winLevel =>
                /\ Len(winCall.wrote) = 1
                /\ winCall.wrote[1].text = winCall.text
                /\ winCall.created = (IF winCall.wasOpen THEN 0 ELSE 1)
                /\ winOpen
          /\ winCall.level > winLevel =>
                /\ winCall.created = 0
                /\ winCall.wrote = <<>>
                /\ winOpen = winCall.wasOpen
    /\ winCall.op = "shutdown" => ~winOpen

\* A log() at the logger's level found the window open, after an earlier
\* call, and wrote without creating it.
C31_Witness ==
    /\ winCall.op = "log"
    /\ winCall.n >= 2
    /\ winCall.level = winLevel
    /\ winCall.wasOpen
    /\ winCall.created = 0
    /\ Len(winCall.wrote) = 1


(***************************************************************************)
(* Properties of the FileLogger.                                           *)
(***************************************************************************)
\* C32: the file is opened lazily and at most once: a log() at a level up
\* to the logger's opens the file if and only if there is no handle yet,
\* and writes and flushes once; a log() at a higher level touches nothing;
\* shutdown() closes the handle once if there is one and does nothing if
\* there is none.
C32_FileOpenedOnce ==
    /\ fileOpens <= 1
    /\ (fileOpens = 0) = (fileHandle = "None")
    /\ fileCall.op = "log" =>
          /\ fileCall.closed = 0
          /\ fileCall.level <= fileLevel =>
                /\ fileCall.opened = (IF fileCall.had = "None" THEN 1 ELSE 0)
                /\ Len(fileCall.wrote) = 1
                /\ fileCall.wrote[1].text = fileCall.text
                /\ fileCall.flushed = 1
                /\ fileHandle = "open"
          /\ fileCall.level > fileLevel =>
                /\ fileCall.opened = 0
                /\ fileCall.wrote = <<>>
                /\ fileCall.flushed = 0
                /\ fileHandle = fileCall.had
    /\ fileCall.op = "shutdown" =>
          /\ fileCall.closed = (IF fileCall.had = "None" THEN 0 ELSE 1)
          /\ fileCall.opened = 0
          /\ fileCall.wrote = <<>>

\* The shutdown() after two logs that went to one handle closed it.
C32_Witness ==
    /\ fileCall.op = "shutdown"
    /\ fileCall.n = 3
    /\ fileCall.had = "open"
    /\ fileCall.closed = 1
    /\ fileOpens = 1
    /\ fileHandle = "closed"


(***************************************************************************)
(* Properties of the Keymapper.                                            *)
(***************************************************************************)
\* No map command occurs twice in a sequence of them.
NoDuplicate(lines) ==
    \A i, j \in 1..Len(lines) : i # j => lines[i] # lines[j]

\* C36: key mapping is restored after any sequence of map(), reload() and
\* unmap(): a map() while mapped and an unmap() while not mapped change
\* nothing, and after an unmap() no debugger mapping is left, Vim's
\* mappings are what they were before the first map(), and unmap() has
\* executed each overridden mapping of the user once and nothing else.
C36_MappingRestored ==
    /\ (keyCall.op = "unmap" /\ keyCall.wasMapped) =>
          /\ \A lhs \in AllLhs : vimMaps[lhs] # "debugger"
          /\ vimMaps = userMaps
          /\ NoDuplicate(keyCall.ran)
          /\ \A i \in 1..Len(keyCall.ran) : keyCall.ran[i].rhs = "user"
    /\ (keyCall.op = "unmap" /\ ~keyCall.wasMapped) =>
          /\ keyCall.ran = <<>>
          /\ ~keymapper.is_mapped
    /\ (keyCall.op = "map" /\ keyCall.wasMapped) => keymapper.is_mapped

=============================================================================
